---------------------------- MODULE Spec2Model ----------------------------
(*************************************************************************)
(* Verification model of the OVN EVPN agent (ovn_bgp_agent).             *)
(*                                                                       *)
(* Part I   : NetManager (drivers/openstack/evpn/net_manager.py)         *)
(*            ensure_infrastructure / cleanup_infrastructure / rollback. *)
(* Part II  : OVNEVPNDriver (drivers/openstack/ovn_evpn_driver.py)       *)
(*            sync, frr_sync and the event handlers.                     *)
(* Part III : the 'evpn' lock around the driver's entry points.          *)
(* Part IV  : VlanManager (drivers/openstack/evpn/vlan_manager.py)       *)
(*            allocate / release / cleanup_stale.                        *)
(* Part V   : FdbManager (drivers/openstack/evpn/fdb_manager.py)         *)
(*            ensure_fdb_entry / batch_add_fdb / cleanup_device.         *)
(* Part VI  : OvnEvpnHelper (drivers/openstack/evpn/ovn_helper.py)       *)
(*            get_ovn_vlan_tag / clear_vlan_cache.                       *)
(* Part VII : the readiness latch of the driver: start() and sb_idl.     *)
(* Part VIII: the event handlers under the lock, with failing calls.     *)
(* Part IX  : apply_vtysh_config (drivers/openstack/utils/frr.py).       *)
(*                                                                       *)
(* The kernel, OVS, FRR and the OVN database are capability interfaces:  *)
(* every call into them either succeeds with its documented effect or    *)
(* raises.  Which call raises is an input of the action.                 *)
(*************************************************************************)
EXTENDS Integers, Sequences, FiniteSets, TLC

VARIABLES
    vrfs,        \* NetManager.vrfs : vrf_name -> [table_id, vni, networks]
    devs,        \* host devices (kernel links and OVS internal ports)
    frrVrfs,     \* VRFs currently configured in FRR
    netinfo,     \* the network_info dict the caller passes for each network
    delete_vrf_on_disconnect,   \* CONF.delete_vrf_on_disconnect
    live,        \* history: networks ensured successfully and not cleaned up
    clean,       \* history: no call has failed so far
    last,        \* history: the last call and how it ended
    evpn_networks,       \* OVNEVPNDriver: network_id -> network_info
    evpn_vrfs,           \* OVNEVPNDriver: vrf_name -> [table_id, l3vni, networks]
    evpn_ports,          \* OVNEVPNDriver: logical_port -> port_info
    bridge_fdb_entries,  \* OVNEVPNDriver: the (mac, vlan) keys of the EVPN bridge
    static_neighbors,    \* OVNEVPNDriver: irb_device -> (ip, mac) keys
    ovn_db,              \* the Port_Binding rows of the OVN Southbound database
    faults,      \* history: how many calls into the host have failed so far
    lock,        \* the holder of the 'evpn' lock of lockutils, or None
    pc,          \* each thread's position in the entry point it called
    network_to_vlan,     \* VlanManager: network_id -> VLAN
    vlan_to_network,     \* VlanManager: VLAN -> network_id
    free_pool,           \* VlanManager: the VLANs no network holds
    stats,               \* VlanManager: allocations, releases, conflicts
    vlan_call,           \* history: the last VlanManager call and its result
    vlan_before,         \* history: the maps and the pool before an allocate
                         \* that gave a VLAN, kept while that network is
                         \* released by the very next call
    fdb_bridge_fdb_entries,  \* FdbManager.bridge_fdb_entries: device -> keys
    fdb_static_neighbors,    \* FdbManager.static_neighbors: device -> keys
    evpn_static_fdb,         \* CONF.evpn_static_fdb
    evpn_static_neighbors,   \* CONF.evpn_static_neighbors
    fdb_inserted,        \* history: device -> the (mac, vlan) keys whose kernel
                         \* insert succeeded since the last cleanup_device
    fdb_call,            \* history: the last FdbManager call and the kernel
                         \* inserts it attempted
    ovn_vlan_cache,      \* OvnEvpnHelper._ovn_vlan_cache: network_id -> tag
    tag_call,            \* history: the last OvnEvpnHelper call, what OVN and
                         \* OVS would have answered, and the queries it made
    sb_idl_handle,       \* OVNEVPNDriver._sb_idl: None or the SB IDL handle
    post_fork_event,     \* OVNEVPNDriver._post_fork_event: is the flag set
    start_pc,            \* the position of the thread running start()
    readers,             \* each reader thread's position in the sb_idl
                         \* property and the value its last read returned
    tmp_files,           \* the temporary files on the host: name -> content
    vtysh_call,          \* history: the last apply_vtysh_config call
    frr_config,          \* the objects of FRR's running configuration
    vrf_call,            \* history: the last vrf_reconfigure call
    cache_lock,          \* the holder of _ovn_vlan_cache_lock, or None
    callers,             \* where each caller of the helper stands
    info_call            \* history: one Port_Binding through both builders

netVars == <<vrfs, netinfo, live, clean>>
hostVars == <<devs, frrVrfs, delete_vrf_on_disconnect>>
drvVars == <<evpn_networks, evpn_vrfs, evpn_ports, bridge_fdb_entries,
             static_neighbors, ovn_db>>

thrVars == <<lock, pc>>

vlanVars == <<network_to_vlan, vlan_to_network, free_pool, stats, vlan_call,
              vlan_before>>

fdbVars == <<fdb_bridge_fdb_entries, fdb_static_neighbors, evpn_static_fdb,
             evpn_static_neighbors, fdb_inserted, fdb_call>>

helperVars == <<ovn_vlan_cache, tag_call>>

latchVars == <<sb_idl_handle, post_fork_event, start_pc, readers>>

frrVars == <<tmp_files, vtysh_call>>

\* the OVN helper, the readiness latch and the FRR utilities
\* FRR's running configuration
cfgVars == <<frr_config, vrf_call>>

\* the helper's cache lock and its callers
lockVars == <<cache_lock, callers>>

\* the two builders of network_info
infoVars == <<info_call>>

extVars == <<cfgVars, lockVars, infoVars>>

auxVars == <<helperVars, latchVars, frrVars, extVars>>

\* the state of the helper managers, which no driver entry point touches
mgrVars == <<vlanVars, fdbVars, auxVars>>

vars == <<netVars, hostVars, drvVars, last, faults, thrVars, mgrVars>>

None == "None"

\* an optional integer (Python: None or an int): <<>> or <<i>>
NoInt == <<>>
Some(i) == <<i>>

\* ----------------------------------------------------------------------
\* Bounds of the model
\* ----------------------------------------------------------------------

\* longest VRF network list explored (ensure_infrastructure appends)
MaxAttach == 2

\* VLANs in the pool of the VlanManager
MaxVlans == 6

\* releases counted by the VlanManager in one behaviour
MaxReleases == 2

\* calls into the kernel, OVS, FRR or the OVN database that fail in one
\* behaviour of the NetManager / of the driver
MaxNetFaults == 2
MaxFaults == 1

\* threads calling into the driver: the two periodic workers and one
\* thread delivering OVN events
Threads == {"sync_worker", "frr_worker", "event"}
Idle == [at |-> "idle", op |-> None]

Nets == {"n1", "n2"}
Vnis == {200, 300}

\* the bridge VLAN the allocator chose: distinct networks, distinct VLANs
VlanOf(n) == IF n = "n1" THEN 200 ELSE 201

\* ----------------------------------------------------------------------
\* Names
\* ----------------------------------------------------------------------

VrfName(vni) == <<"vrf", vni>>
VxlanName(vni) == <<"vxlan", vni>>
IrbName(vlan_id) == <<"irb", vlan_id>>
IntPortName(vni) == <<"internal_port", vni>>

\* network_info as the caller builds it
NetworkInfos(n) ==
    { [id |-> n, vlan_id |-> VlanOf(n), vni |-> v, type |-> t,
       l2vni |-> IF t = "l2" THEN Some(v) ELSE NoInt] :
          v \in Vnis, t \in {"l2", "l3"} }

\* ----------------------------------------------------------------------
\* NetManager.ensure_infrastructure
\* ----------------------------------------------------------------------

\* the call of ensure_infrastructure that raises
EnsureFailPoints ==
    { "none",
      "ensure_vrf", "vrf_up",
      "ensure_vxlan", "vxlan_config",
      "ensure_vlan_device", "irb_config",
      "add_port", "port_config",
      "frr_add_vrf" }

\* local state of one call: the host, the manager and the rollback list
CallState(d, v, f) ==
    [devs |-> d, vrfs |-> v, frr |-> f, created |-> <<>>, ok |-> TRUE,
     calls |-> <<>>]

Called(st, what) == [st EXCEPT !.calls = Append(@, what)]
Raised(st, what) == [st EXCEPT !.calls = Append(@, what), !.ok = FALSE]

\* line 62: self.vrfs[vrf_name]['networks'].append(network_id)
RegisterNetwork(st, ni) ==
    [st EXCEPT !.vrfs[VrfName(ni.vni)].networks = Append(@, ni.id)]

\* step 1, lines 47-62
StepVrf(st, ni, fail) ==
    LET name == VrfName(ni.vni) IN
    IF name \in DOMAIN st.vrfs
    THEN RegisterNetwork(st, ni)
    ELSE IF fail = "ensure_vrf" THEN Raised(st, "ensure_vrf")
    ELSE IF fail = "vrf_up"
         THEN Raised([st EXCEPT !.devs = @ \cup {name}], "ensure_vrf")
    ELSE RegisterNetwork(
           Called([st EXCEPT
                     !.devs = @ \cup {name},
                     !.created = Append(@, name),
                     !.vrfs = (name :> [table_id |-> ni.vni + 1000000,
                                         vni |-> ni.vni,
                                         networks |-> <<>>]) @@ @],
                  "ensure_vrf"), ni)

\* step 2, lines 64-67 and _ensure_vxlan
StepVxlan(st, ni, fail) ==
    LET name == VxlanName(ni.vni) IN
    IF ~st.ok THEN st
    ELSE IF fail = "ensure_vxlan" THEN Raised(st, "ensure_vxlan")
    ELSE IF fail = "vxlan_config"
         THEN Raised([st EXCEPT !.devs = @ \cup {name}], "ensure_vxlan")
    ELSE Called([st EXCEPT !.devs = @ \cup {name},
                           !.created = Append(@, name)], "ensure_vxlan")

\* step 3, lines 69-72 and _ensure_irb
StepIrb(st, ni, fail) ==
    LET name == IrbName(ni.vlan_id) IN
    IF ~st.ok THEN st
    ELSE IF fail = "ensure_vlan_device" THEN Raised(st, "ensure_irb")
    ELSE IF fail = "irb_config"
         THEN Raised([st EXCEPT !.devs = @ \cup {name}], "ensure_irb")
    ELSE Called([st EXCEPT !.devs = @ \cup {name},
                           !.created = Append(@, name)], "ensure_irb")

\* step 4, lines 74-82 and _ensure_internal_port
StepInternalPort(st, ni, fail) ==
    LET name == IntPortName(ni.vni) IN
    IF ~st.ok \/ ni.type # "l2" THEN st
    ELSE IF fail = "add_port" THEN Raised(st, "ensure_internal_port")
    ELSE IF fail = "port_config"
         THEN Raised([st EXCEPT !.devs = @ \cup {name}],
                     "ensure_internal_port")
    ELSE Called([st EXCEPT !.devs = @ \cup {name},
                           !.created = Append(@, name)],
                "ensure_internal_port")

\* step 5, lines 84-85 and _configure_frr
StepFrr(st, ni, fail) ==
    IF ~st.ok THEN st
    ELSE IF fail = "frr_add_vrf" THEN Raised(st, "frr_add_vrf")
    ELSE Called([st EXCEPT !.frr = @ \cup {VrfName(ni.vni)}], "frr_add_vrf")

\* _rollback_resources: reversed(resources), each deletion best effort
RECURSIVE rollback_resources(_, _, _)
rollback_resources(st, resources, delFail) ==
    IF resources = <<>> THEN st
    ELSE LET name == resources[Len(resources)]
             rest == SubSeq(resources, 1, Len(resources) - 1)
             st2 == IF name[1] \in delFail
                    THEN Called(st, <<"delete_failed", name>>)
                    ELSE Called([st EXCEPT !.devs = @ \ {name}],
                                <<"delete", name>>)
         IN rollback_resources(st2, rest, delFail)

DeviceKinds == {"vrf", "vxlan", "irb", "internal_port"}

\* the deletions that fail during one rollback: none, or those of one kind
DeleteFailures == {{}} \cup { {k} : k \in DeviceKinds }

\* the try block with the IRB created before the VXLAN
EnsureTryIrbFirst(d, v, f, ni, fail) ==
    LET s1 == StepVrf(CallState(d, v, f), ni, fail)
        s2 == StepIrb(s1, ni, fail)
        s3 == StepVxlan(s2, ni, fail)
        s4 == StepInternalPort(s3, ni, fail)
    IN StepFrr(s4, ni, fail)

\* the try block, lines 44-87
EnsureTry(d, v, f, ni, fail) ==
    LET s1 == StepVrf(CallState(d, v, f), ni, fail)
        s2 == StepVxlan(s1, ni, fail)
        s3 == StepIrb(s2, ni, fail)
        s4 == StepInternalPort(s3, ni, fail)
    IN StepFrr(s4, ni, fail)

\* the try block followed by the except block (lines 89-92)
EnsureResult(d, v, f, ni, fail, delFail) ==
    LET s5 == EnsureTry(d, v, f, ni, fail)
    IN IF s5.ok THEN s5
       ELSE rollback_resources(s5, s5.created, delFail)

\* a deletion can fail only if the rollback attempts it
RollbackAttempts(n, fail) ==
    LET s5 == EnsureTry(devs, vrfs, frrVrfs, netinfo[n], fail)
    IN IF s5.ok THEN {}
       ELSE { s5.created[i][1] : i \in 1..Len(s5.created) }

ensure_infrastructure(n, fail, delFail) ==
    LET ni == netinfo[n]
        r == EnsureResult(devs, vrfs, frrVrfs, ni, fail, delFail)
    IN /\ VrfName(ni.vni) \in DOMAIN vrfs
            => Len(vrfs[VrfName(ni.vni)].networks) < MaxAttach
       /\ devs' = r.devs
       /\ vrfs' = r.vrfs
       /\ frrVrfs' = r.frr
       /\ live' = IF r.ok THEN live \cup {n} ELSE live
       /\ clean' = (clean /\ r.ok)
       /\ last' = [op |-> "ensure", net |-> n, ok |-> r.ok,
                   delOk |-> (r.ok \/ delFail = {}), raised |-> FALSE,
                   steps |-> EnsureTry(devs, vrfs, frrVrfs, ni, fail).calls]
       /\ UNCHANGED <<netinfo, delete_vrf_on_disconnect, drvVars, mgrVars>>

\* ----------------------------------------------------------------------
\* NetManager.cleanup_infrastructure
\* ----------------------------------------------------------------------

\* the call of cleanup_infrastructure that raises
CleanupFailPoints ==
    { "none", "delete_irb", "delete_vxlan", "frr_del_vrf", "delete_vrf" }

\* list.remove(x): drops the first occurrence of x
RECURSIVE RemoveFirst(_, _)
RemoveFirst(s, x) ==
    IF s = <<>> THEN <<>>
    ELSE IF Head(s) = x THEN Tail(s)
    ELSE <<Head(s)>> \o RemoveFirst(Tail(s), x)

InSeq(s, x) == \E i \in 1..Len(s) : s[i] = x

DropKey(f, k) == [x \in DOMAIN f \ {k} |-> f[x]]

\* lines 105-108
CleanIrb(st, ni, fail) ==
    IF fail = "delete_irb" THEN Raised(st, "delete_irb")
    ELSE Called([st EXCEPT !.devs = @ \ {IrbName(ni.vlan_id)}], "delete_irb")

\* lines 110-113
CleanVxlan(st, ni, fail) ==
    IF ~st.ok THEN st
    ELSE IF fail = "delete_vxlan" THEN Raised(st, "delete_vxlan")
    ELSE Called([st EXCEPT !.devs = @ \ {VxlanName(ni.vni)}], "delete_vxlan")

\* _cleanup_internal_port: every failure inside it is swallowed
cleanup_internal_port(st, name, portDelOk) ==
    IF portDelOk
    THEN Called([st EXCEPT !.devs = @ \ {name}], "cleanup_internal_port")
    ELSE Called(st, "cleanup_internal_port")

\* a cleanup that leaves the internal port alone
CleanWithoutInternalPort(st, ni, portDelOk) == st

\* lines 115-118
CleanInternalPort(st, ni, portDelOk) ==
    IF ~st.ok \/ ni.l2vni = NoInt THEN st
    ELSE cleanup_internal_port(st, IntPortName(ni.vni), portDelOk)

\* a last-network cleanup that deletes the kernel VRF device whatever
\* the option says
CleanLastVrfAlways(st, ni, fail, delVrf) ==
    LET name == VrfName(ni.vni) IN
    IF fail = "frr_del_vrf" THEN Raised(st, "frr_del_vrf")
    ELSE LET s1 == Called([st EXCEPT !.frr = @ \ {name}], "frr_del_vrf") IN
         IF fail = "delete_vrf" THEN Raised(s1, "delete_vrf")
         ELSE [Called([s1 EXCEPT !.devs = @ \ {name}], "delete_vrf")
                  EXCEPT !.vrfs = DropKey(@, name)]

\* lines 125-133, reached with an empty network list
CleanLastVrf(st, ni, fail, delVrf) ==
    LET name == VrfName(ni.vni) IN
    IF fail = "frr_del_vrf" THEN Raised(st, "frr_del_vrf")
    ELSE LET s1 == Called([st EXCEPT !.frr = @ \ {name}], "frr_del_vrf") IN
         IF delVrf /\ fail = "delete_vrf" THEN Raised(s1, "delete_vrf")
         ELSE LET s2 == IF delVrf
                        THEN Called([s1 EXCEPT !.devs = @ \ {name}],
                                    "delete_vrf")
                        ELSE s1
              IN [s2 EXCEPT !.vrfs = DropKey(@, name)]

\* lines 120-133
CleanVrf(st, ni, fail, delVrf) ==
    LET name == VrfName(ni.vni) IN
    IF ~st.ok \/ name \notin DOMAIN st.vrfs THEN st
    ELSE IF ~InSeq(st.vrfs[name].networks, ni.id)
         THEN Raised(st, "ValueError")
    ELSE LET s1 == Called([st EXCEPT !.vrfs[name].networks =
                                         RemoveFirst(@, ni.id)],
                          "vrf_detach")
         IN IF s1.vrfs[name].networks = <<>>
            THEN CleanLastVrf(s1, ni, fail, delVrf)
            ELSE s1

\* the try block, lines 102-133; the except block only logs
CleanupResult(d, v, f, ni, fail, portDelOk, delVrf) ==
    LET s1 == CleanIrb(CallState(d, v, f), ni, fail)
        s2 == CleanVxlan(s1, ni, fail)
        s3 == CleanInternalPort(s2, ni, portDelOk)
    IN CleanVrf(s3, ni, fail, delVrf)

\* The caller cleans up only networks it recorded after a successful
\* ensure_infrastructure (withdraw_subnet looks the network up first).
cleanup_infrastructure(n, fail, portDelOk) ==
    LET ni == netinfo[n]
        r == CleanupResult(devs, vrfs, frrVrfs, ni, fail, portDelOk,
                           delete_vrf_on_disconnect)
    IN /\ n \in live
       /\ devs' = r.devs
       /\ vrfs' = r.vrfs
       /\ frrVrfs' = r.frr
       /\ live' = live \ {n}
       /\ clean' = (clean /\ r.ok /\ portDelOk)
       /\ last' = [op |-> "cleanup", net |-> n, ok |-> r.ok,
                   delOk |-> (r.ok /\ portDelOk), raised |-> FALSE,
                   steps |-> r.calls]
       /\ UNCHANGED <<netinfo, delete_vrf_on_disconnect, drvVars, mgrVars>>

\* ----------------------------------------------------------------------
\* Specification of the NetManager
\* ----------------------------------------------------------------------

NoCall ==
    [op |-> "init", net |-> None, ok |-> TRUE, delOk |-> TRUE,
     raised |-> FALSE]

\* ----------------------------------------------------------------------
\* The helper managers after construction
\* ----------------------------------------------------------------------

\* the first VLAN of the pool
VLAN_MIN == 100

\* the last VLAN of the pool. The code's 4094 gives a pool of 3995 VLANs,
\* which no bounded run exhausts; the pool is cut to MaxVlans ids.
\* MaxVlans is chosen so that VLAN_MIN % MaxVlans is neither 0 nor 1, as
\* 100 % 3995 is neither: the probe sequence of _find_free_vlan then starts
\* away from the VNI and from its successor, as it does in the code.
VLAN_MAX == VLAN_MIN + MaxVlans - 1

\* no VlanManager call yet
NoVlanCall ==
    [op |-> "init", network_id |-> 0, vni |-> NoInt, held |-> FALSE,
     vlan |-> NoInt, raised |-> FALSE, active |-> {}]

\* no allocate to undo
NoSnapshot ==
    [valid |-> FALSE, network_to_vlan |-> <<>>, vlan_to_network |-> <<>>,
     free_pool |-> {}]

\* VlanManager.__init__
InitVlanManager ==
    /\ network_to_vlan = <<>>
    /\ vlan_to_network = <<>>
    /\ free_pool = VLAN_MIN .. VLAN_MAX
    /\ stats = [allocations |-> 0, releases |-> 0, conflicts |-> 0]
    /\ vlan_call = NoVlanCall
    /\ vlan_before = NoSnapshot

\* no FdbManager call yet
NoFdbCall ==
    [op |-> "init", device |-> None, entries |-> <<>>, attempts |-> <<>>,
     warned |-> <<>>, raised |-> FALSE]

\* FdbManager.__init__
InitFdbManager ==
    /\ fdb_bridge_fdb_entries = <<>>
    /\ fdb_static_neighbors = <<>>
    /\ fdb_inserted = <<>>
    /\ fdb_call = NoFdbCall

\* the reader threads of the sb_idl property
Readers == {"r1", "r2", "r3"}

\* no OvnEvpnHelper call yet
NoTagCall ==
    [op |-> "init", network_id |-> None, hit |-> FALSE, behaviour |-> <<>>,
     queries |-> <<>>, vlan |-> NoInt, raised |-> FALSE]

\* OvnEvpnHelper.__init__
InitHelper ==
    /\ ovn_vlan_cache = <<>>
    /\ tag_call = NoTagCall

\* OVNEVPNDriver.__init__ lines 96-97: no handle, the flag clear; no
\* thread has entered start() or the property
InitLatch ==
    /\ sb_idl_handle = None
    /\ post_fork_event = FALSE
    /\ start_pc = "idle"
    /\ readers = [r \in Readers |-> [pc |-> "idle", value |-> None,
                                      waited |-> FALSE]]

\* no apply_vtysh_config call yet
NoVtyshCall ==
    [op |-> "init", created |-> NoInt, written |-> FALSE, ran |-> FALSE,
     unlinked |-> FALSE, raised |-> FALSE]

\* no temporary file on the host
InitFrr ==
    /\ tmp_files = <<>>
    /\ vtysh_call = NoVtyshCall

NoVrfCall ==
    [action |-> "init", vrf_name |-> None, bgp_as |-> NoInt,
     local_pref |-> NoInt, config |-> <<>>]

\* FRR before the agent configured any VRF
InitFrrConfig ==
    /\ frr_config = {}
    /\ vrf_call = NoVrfCall

HelperThreads == {"h1", "h2"}

\* a caller outside the helper
Resting == [at |-> "idle", network_id |-> None, attempt |-> 0,
            vlan |-> NoInt]

\* the lock is free and no caller is inside the helper
InitCacheLock ==
    /\ cache_lock = None
    /\ callers = [t \in HelperThreads |-> Resting]

NoInfoCall ==
    [op |-> "init", row |-> None, l2vni_offset |-> NoInt,
     sync_path |-> <<>>, event_path |-> <<>>]

InitInfo == info_call = NoInfoCall

InitAux ==
    /\ InitHelper
    /\ InitLatch
    /\ InitFrr
    /\ InitFrrConfig
    /\ InitCacheLock
    /\ InitInfo

\* both managers, with the two options at their defaults
InitManagers ==
    /\ InitAux
    /\ InitVlanManager
    /\ InitFdbManager
    /\ evpn_static_fdb = TRUE
    /\ evpn_static_neighbors = TRUE

\* networks of one VNI belong to one EVPN instance, so they share its type;
\* n1 has VNI 200 (the other choice is the same up to renaming)
InitNet ==
    /\ vrfs = <<>>
    /\ devs = {}
    /\ frrVrfs = {}
    /\ netinfo \in { f \in [Nets -> UNION { NetworkInfos(n) : n \in Nets }] :
                        /\ \A n \in Nets : f[n] \in NetworkInfos(n)
                        /\ f["n1"].vni = 200
                        /\ \A a, b \in Nets :
                              f[a].vni = f[b].vni => f[a].type = f[b].type }
    /\ delete_vrf_on_disconnect \in BOOLEAN
    /\ live = {}
    /\ clean = TRUE
    /\ last = NoCall
    /\ evpn_networks = <<>>
    /\ evpn_vrfs = <<>>
    /\ evpn_ports = <<>>
    /\ bridge_fdb_entries = {}
    /\ static_neighbors = <<>>
    /\ ovn_db = <<>>
    /\ faults = 0
    /\ lock = None
    /\ pc = [t \in Threads |-> Idle]
    /\ InitManagers

\* 0 for an outcome that is the call's success, 1 for a failure
BoolFault(b) == IF b THEN 0 ELSE 1

Inject(n, max) ==
    /\ faults + n <= max
    /\ faults' = faults + n
    /\ UNCHANGED thrVars

NetEnsure ==
    \E n \in Nets, fail \in EnsureFailPoints :
        \E delFail \in { x \in DeleteFailures : x \subseteq RollbackAttempts(n, fail) } :
            /\ Inject(BoolFault(fail = "none") + BoolFault(delFail = {}),
                      MaxNetFaults)
            /\ fail # "none"
                  => ~EnsureTry(devs, vrfs, frrVrfs, netinfo[n], fail).ok
            /\ ensure_infrastructure(n, fail, delFail)

NetCleanup ==
    \E n \in Nets, fail \in CleanupFailPoints, portDelOk \in BOOLEAN :
        /\ Inject(BoolFault(fail = "none") + BoolFault(portDelOk), MaxNetFaults)
        /\ (fail # "none" \/ ~portDelOk)
              => CleanupResult(devs, vrfs, frrVrfs, netinfo[n], fail,
                               portDelOk, delete_vrf_on_disconnect)
                   # CleanupResult(devs, vrfs, frrVrfs, netinfo[n], "none",
                                   TRUE, delete_vrf_on_disconnect)
        /\ cleanup_infrastructure(n, fail, portDelOk)

NextNet == NetEnsure \/ NetCleanup

SpecNet == InitNet /\ [][NextNet]_vars

\* ----------------------------------------------------------------------
\* Claims about the NetManager
\* ----------------------------------------------------------------------

Count(s, x) == Cardinality({ i \in 1..Len(s) : s[i] = x })

\* C2: whenever ensure_infrastructure returns False and the rollback
\* deletions succeed, no device created during that call remains, for a
\* failure at any point of any step (also after the step's device exists).
C2_RollbackComplete ==
    [][ (last'.op = "ensure" /\ ~last'.ok /\ last'.delOk)
            => devs' \subseteq devs ]_vars

\* C3: when ensure_infrastructure fails for a network whose VRF was not
\* tracked before the call, NetManager.vrfs is on return what it was before
\* the call: no vrf-<VNI> record and no network id is left behind.
C3_FailedEnsureLeavesVrfsUntouched ==
    [][ ( /\ last'.op = "ensure"
          /\ ~last'.ok
          /\ VrfName(netinfo[last'.net].vni) \notin DOMAIN vrfs )
            => vrfs' = vrfs ]_vars

\* C4: ensure_infrastructure is idempotent: a successful call that directly
\* follows a successful call for the same network changes neither the
\* devices nor the tracked state, and the network id is listed once.
C4_EnsureIdempotent ==
    [][ ( /\ last.op = "ensure" /\ last.ok
          /\ last'.op = "ensure" /\ last'.ok
          /\ last'.net = last.net )
            => /\ devs' = devs
               /\ vrfs' = vrfs
               /\ frrVrfs' = frrVrfs
               /\ Count(vrfs'[VrfName(netinfo[last.net].vni)].networks,
                        last.net) = 1 ]_vars

\* C5: VRF lifecycle: while no call has failed, vrf-<VNI> is tracked exactly
\* while some attached (ensured, not yet detached) network has that VNI,
\* however many times each network was ensured.
C5_VrfLifecycle ==
    clean =>
        \A v \in Vnis :
            VrfName(v) \in DOMAIN vrfs
                <=> (\E n \in live : netinfo[n].vni = v)

\* C6: no VRF record with an empty network list exists in any reachable
\* state, whatever the outcome of the deletions and of FRR del-vrf.
C6_NoEmptyVrfRecord ==
    \A name \in DOMAIN vrfs : vrfs[name].networks # <<>>

\* C7: every live network with VNI v has its VRF vrf-<v>, its VXLAN
\* vxlan-<v> and its IRB <bridge>.<vlan>, and the internal port evpn-<v>
\* exists iff the network's type is l2.
C7_LiveNetworkHasItsDevices ==
    \A n \in live :
        LET ni == netinfo[n] IN
        /\ VrfName(ni.vni) \in devs
        /\ VxlanName(ni.vni) \in devs
        /\ IrbName(ni.vlan_id) \in devs
        /\ (IntPortName(ni.vni) \in devs <=> ni.type = "l2")

\* is s the first Len(s) elements of t
IsPrefix(s, t) == Len(s) <= Len(t) /\ s = SubSeq(t, 1, Len(s))

\* the steps of ensure_infrastructure that call into the host, in the
\* order of the claim: the VRF is created unless it is tracked, the
\* internal port belongs to type l2 only
StepOrder(ni, tracked) ==
    (IF tracked THEN <<>> ELSE <<"ensure_vrf">>)
        \o <<"ensure_vxlan", "ensure_irb">>
        \o (IF ni.type = "l2" THEN <<"ensure_internal_port">> ELSE <<>>)
        \o <<"frr_add_vrf">>

\* C30: in every call of ensure_infrastructure the steps attempted are
\* VRF, VXLAN, IRB, internal port (type l2 only), FRR add-vrf, in that
\* order and without a gap: a successful call has run them all, a failed
\* call has stopped at the step that failed, and FRR add-vrf is
\* attempted only after every device step has succeeded and changes FRR
\* only in a successful call.
C30_EnsureStepOrder ==
    [][ last'.op = "ensure"
          => LET ni == netinfo[last'.net]
                 order == StepOrder(ni, VrfName(ni.vni) \in DOMAIN vrfs)
                 steps == last'.steps
             IN /\ steps # <<>>
                /\ IsPrefix(steps, order)
                /\ last'.ok => steps = order
                /\ InSeq(steps, "frr_add_vrf") => Len(steps) = Len(order)
                /\ ~last'.ok => frrVrfs' = frrVrfs ]_vars

\* a call for a network of type l2 failed at its internal port, after
\* the VRF, the VXLAN and the IRB
C30_Witness ==
    /\ last.op = "ensure"
    /\ ~last.ok
    /\ last.steps = <<"ensure_vrf", "ensure_vxlan", "ensure_irb",
                      "ensure_internal_port">>

\* the steps of cleanup_infrastructure up to the VRF's network set, in the
\* order of the claim
CleanupOrder(ni) ==
    <<"delete_irb", "delete_vxlan">>
        \o (IF ni.l2vni # NoInt THEN <<"cleanup_internal_port">> ELSE <<>>)

C38_TrackedVrfHasDevice ==
    \A name \in DOMAIN vrfs : name \in devs

\* ======================================================================
\* Part II : OVNEVPNDriver (drivers/openstack/ovn_evpn_driver.py)
\* ======================================================================

Datapaths == {"d1", "d2"}

\* Port_Binding rows in the order db_list_rows returns them
PortOrder == <<"p1", "p2", "p3">>
DpOf(p) == IF p = "p3" THEN "d2" ELSE "d1"

\* Port_Binding.mac, parsed: only p1 carries an address, the others
\* carry ['unknown']
MacOf(p) ==
    IF p = "p1"
    THEN [known |-> TRUE, mac |-> <<"mac", p>>, ips |-> {<<"ip", p>>}]
    ELSE [known |-> FALSE, mac |-> "unknown", ips |-> {}]

\* the VLAN tag get_network_name_and_tag reports for a datapath
TagOf(d) == IF d = "d1" THEN 11 ELSE 12

\* EVPN external_ids of a row: the VNI key, the AS key, the type key
NoExt == [vni |-> NoInt, bgp_as |-> FALSE, type |-> "absent"]
ExtIds ==
    { NoExt,
      [vni |-> Some(200), bgp_as |-> TRUE, type |-> "l3"],
      [vni |-> Some(200), bgp_as |-> TRUE, type |-> "l2"],
      [vni |-> Some(300), bgp_as |-> TRUE, type |-> "l3"] }

Row(p, ext) ==
    [logical_port |-> p, datapath |-> DpOf(p), external_ids |-> ext,
     mac |-> MacOf(p)]

\* lines 301-302: a row is EVPN-enabled iff the VNI and the AS key are set
HasEvpnConfig(port) ==
    port.external_ids.vni # NoInt /\ port.external_ids.bgp_as

\* ext_ids.get(OVN_EVPN_TYPE_EXT_ID_KEY, 'l3')
EvpnType(ext) == IF ext.type = "absent" THEN "l3" ELSE ext.type

\* local state of one handler run: the driver's maps and the host
DriverState ==
    [nets |-> evpn_networks, vrfs |-> evpn_vrfs, ports |-> evpn_ports,
     fdb |-> bridge_fdb_entries, neigh |-> static_neighbors,
     devs |-> devs, frr |-> frrVrfs, ok |-> TRUE, errors |-> 0]

Fail(ds) == [ds EXCEPT !.ok = FALSE, !.errors = @ + 1]

BridgeName(vni) == <<"bridge", vni>>
L3VxlanName(vni) == <<"vxlan_l3", vni>>

\* the call of _ensure_network_infrastructure that raises
InfraFailPoints ==
    { "none", "vtep", "l2_vxlan", "l2_config", "ensure_vrf", "frr_add_vrf",
      "l3_bridge", "l3_vxlan", "irb", "irb_config" }

\* _ensure_l2vni, lines 507-550
ensure_l2vni(ds, ni, fail) ==
    LET name == VxlanName(ni.l2vni[1]) IN
    IF fail = "l2_vxlan" THEN Fail(ds)
    ELSE IF fail = "l2_config" THEN Fail([ds EXCEPT !.devs = @ \cup {name}])
    ELSE [ds EXCEPT !.devs = @ \cup {name}]

\* lines 568-603: create or reuse the VRF
EnsureDriverVrf(ds, ni, fail) ==
    LET l3vni == ni.l3vni[1]
        name == VrfName(l3vni)
    IN IF name \in DOMAIN ds.vrfs THEN ds
       ELSE IF fail = "ensure_vrf" THEN Fail(ds)
       ELSE IF fail = "frr_add_vrf"
            THEN Fail([ds EXCEPT !.devs = @ \cup {name}])
       ELSE [ds EXCEPT
               !.devs = @ \cup {name},
               !.frr = @ \cup {name},
               !.vrfs = (name :> [table_id |-> l3vni + 1000000,
                                   l3vni |-> l3vni,
                                   networks |-> <<>>]) @@ @]

\* lines 607-629: the L3VNI bridge and VXLAN
EnsureL3Devices(ds, ni, fail) ==
    LET l3vni == ni.l3vni[1] IN
    IF ~ds.ok \/ ~(l3vni > 0) THEN ds
    ELSE IF fail = "l3_bridge" THEN Fail(ds)
    ELSE IF fail = "l3_vxlan"
         THEN Fail([ds EXCEPT !.devs = @ \cup {BridgeName(l3vni)}])
    ELSE [ds EXCEPT !.devs = @ \cup {BridgeName(l3vni), L3VxlanName(l3vni)}]

\* _ensure_irb_device, lines 634-659
ensure_irb_device(ds, ni, fail) ==
    IF ~ds.ok THEN ds
    ELSE IF fail = "irb" THEN Fail(ds)
    ELSE IF fail = "irb_config"
         THEN Fail([ds EXCEPT !.devs = @ \cup {IrbName(ni.vlan_id)}])
    ELSE [ds EXCEPT !.devs = @ \cup {IrbName(ni.vlan_id)}]

\* _ensure_l3vni_infrastructure, lines 552-632
ensure_l3vni_infrastructure(ds, ni, fail) ==
    LET name == VrfName(ni.l3vni[1])
        s1 == EnsureDriverVrf(ds, ni, fail)
        s2 == IF s1.ok
              THEN [s1 EXCEPT !.vrfs[name].networks = Append(@, ni.id)]
              ELSE s1
        s3 == EnsureL3Devices(s2, ni, fail)
    IN ensure_irb_device(s3, ni, fail)

\* _ensure_network_infrastructure, lines 464-505; .ok is its return value
ensure_network_infrastructure(ds, ni, fail) ==
    IF fail = "vtep" THEN Fail(ds)
    ELSE LET s1 == IF ni.l2vni # NoInt THEN ensure_l2vni(ds, ni, fail) ELSE ds
         IN IF s1.ok /\ ni.l3vni # NoInt
            THEN ensure_l3vni_infrastructure(s1, ni, fail)
            ELSE s1

\* ----------------------------------------------------------------------
\* network_info
\* ----------------------------------------------------------------------

\* _build_network_info, lines 336-415 (CONF.l2vni_offset is unset, its
\* default); <<>> stands for the None it returns without a VLAN tag
build_network_info(network_id, sample_port, tagged) ==
    LET ext == sample_port.external_ids
        evpn_type == EvpnType(ext)
    IN IF ~tagged THEN <<>>
       ELSE << [id |-> network_id,
                vlan_id |-> TagOf(sample_port.datapath),
                l2vni |-> IF evpn_type = "l2" THEN ext.vni ELSE NoInt,
                l3vni |-> IF evpn_type = "l2" THEN NoInt ELSE ext.vni,
                type |-> evpn_type] >>

\* the network_info dict of expose_subnet (lines 883-896) and of
\* expose_port_association (lines 1116-1129)
EventNetworkInfo(row) ==
    LET ext == row.external_ids
        evpn_type == EvpnType(ext)
    IN [id |-> row.datapath,
        vlan_id |-> TagOf(row.datapath),
        l2vni |-> IF evpn_type = "l2" THEN ext.vni ELSE NoInt,
        l3vni |-> IF evpn_type = "l3" THEN ext.vni ELSE NoInt,
        type |-> evpn_type]

\* ----------------------------------------------------------------------
\* FDB and neighbor records
\* ----------------------------------------------------------------------

\* _ensure_fdb_entry, lines 679-707 (CONF.evpn_static_fdb is on)
ensure_fdb_entry(ds, mac_address, vlan_id, kOk) ==
    LET key == <<mac_address, vlan_id>> IN
    IF key \notin ds.fdb /\ kOk THEN [ds EXCEPT !.fdb = @ \cup {key}] ELSE ds

\* self.static_neighbors[irb_device] of a defaultdict(list)
NeighOf(neigh, irb_device) ==
    IF irb_device \in DOMAIN neigh THEN neigh[irb_device] ELSE {}

\* _ensure_neighbor_entry for every ip, lines 709-729
\* (CONF.evpn_static_neighbors is on); the lookup creates the device's list
ensure_neighbor_entries(ds, ips, mac_address, irb_device, kOk) ==
    LET old == NeighOf(ds.neigh, irb_device)
        new == IF kOk THEN old \cup { <<ip, mac_address>> : ip \in ips }
               ELSE old
    IN [ds EXCEPT !.neigh = (irb_device :> new) @@ @]

\* the FDB / neighbor part shared by _sync_port, expose_ip and
\* expose_port_association
SeedPort(ds, port, ni, kOk) ==
    LET m == port.mac
        s1 == IF ni.l2vni # NoInt
              THEN ensure_fdb_entry(ds, m.mac, ni.vlan_id, kOk)
              ELSE ds
    IN IF ni.l3vni # NoInt /\ m.ips # {}
       THEN ensure_neighbor_entries(s1, m.ips, m.mac, IrbName(ni.vlan_id), kOk)
       ELSE s1

\* _sync_port, lines 417-458
sync_port(ds, port, ni, kOk) ==
    IF ~port.mac.known THEN ds
    ELSE [SeedPort(ds, port, ni, kOk) EXCEPT
            !.ports = (port.logical_port :>
                          [mac |-> port.mac.mac, ips |-> port.mac.ips,
                           network_id |-> ni.id,
                           vlan_id |-> Some(ni.vlan_id)]) @@ @]

RECURSIVE SyncPorts(_, _, _, _)
SyncPorts(ds, ports, ni, kOk) ==
    IF ports = <<>> THEN ds
    ELSE SyncPorts(sync_port(ds, Head(ports), ni, kOk), Tail(ports), ni, kOk)

\* ----------------------------------------------------------------------
\* sync
\* ----------------------------------------------------------------------

\* _get_evpn_ports, lines 292-308: a failed listing is logged and yields []
get_evpn_ports(listOk) ==
    IF listOk THEN SelectSeq(ovn_db, HasEvpnConfig) ELSE <<>>

\* the keys of networks_with_ports, in insertion order (lines 269-277)
RECURSIVE GroupOrder(_, _)
GroupOrder(ports, seen) ==
    IF ports = <<>> THEN <<>>
    ELSE IF Head(ports).datapath \in seen THEN GroupOrder(Tail(ports), seen)
    ELSE <<Head(ports).datapath>>
            \o GroupOrder(Tail(ports), seen \cup {Head(ports).datapath})

PortsOf(ports, d) ==
    LET OnDatapath(port) == port.datapath = d IN SelectSeq(ports, OnDatapath)

\* _sync_network, lines 310-334
sync_network(ds, network_id, ports, tagged, fail, kOk) ==
    LET built == build_network_info(network_id, Head(ports), tagged) IN
    IF built = <<>> THEN ds
    ELSE LET ni == built[1]
             s1 == ensure_network_infrastructure([ds EXCEPT !.ok = TRUE],
                                                 ni, fail)
         IN IF ~s1.ok THEN s1
            ELSE SyncPorts([s1 EXCEPT !.nets = (network_id :> ni) @@ @],
                           ports, ni, kOk)

\* the loop of lines 280-281; failNet is the network whose build raises
RECURSIVE SyncNetworks(_, _, _, _, _, _, _)
SyncNetworks(ds, order, ports, tags, failNet, fail, kOk) ==
    IF order = <<>> THEN ds
    ELSE LET d == Head(order)
             s1 == sync_network(ds, d, PortsOf(ports, d), d \in tags,
                                IF d = failNet THEN fail ELSE "none", kOk)
         IN SyncNetworks(s1, Tail(order), ports, tags, failNet, fail, kOk)

\* _is_vni_in_use, lines 777-786
is_vni_in_use(nets, vni) ==
    \E id \in DOMAIN nets :
        nets[id].l2vni = Some(vni) \/ nets[id].l3vni = Some(vni)

\* devices left on the host by an earlier run of the agent: their VNI is
\* in no Port_Binding
StrayVnis == {999}
StrayDevices ==
    UNION { {VxlanName(v), VrfName(v), IntPortName(v)} : v \in StrayVnis }

\* linux_net.get_interfaces(): the EVPN-prefixed links, in link order
LinkOrder ==
    << VxlanName(200), VxlanName(300), VxlanName(999),
       L3VxlanName(200), L3VxlanName(300),
       VrfName(200), VrfName(300), VrfName(999), IntPortName(999) >>

\* the body of the loop of lines 743-772 for one link; failLink is the
\* link whose delete_device raises
CleanupLink(ds, link, failLink, delVrf) ==
    IF link[1] \in {"vxlan", "vxlan_l3"}
    THEN IF is_vni_in_use(ds.nets, link[2]) THEN ds
         ELSE IF link = failLink THEN Fail(ds)
         ELSE [ds EXCEPT !.devs = @ \ {link}]
    ELSE IF link[1] # "vrf" \/ link \in DOMAIN ds.vrfs THEN ds
         ELSE LET s1 == [ds EXCEPT !.frr = @ \ {link}] IN
              IF ~delVrf THEN s1
              ELSE IF link = failLink THEN Fail(s1)
              ELSE [s1 EXCEPT !.devs = @ \ {link}]

RECURSIVE CleanupLinks(_, _, _, _)
CleanupLinks(ds, links, failLink, delVrf) ==
    IF links = <<>> \/ ~ds.ok THEN ds
    ELSE CleanupLinks(
            IF Head(links) \in ds.devs
            THEN CleanupLink(ds, Head(links), failLink, delVrf)
            ELSE ds,
            Tail(links), failLink, delVrf)

\* _cleanup_orphaned_resources, lines 735-775
cleanup_orphaned_resources(ds, linksOk, failLink, delVrf) ==
    IF ~linksOk THEN Fail(ds)
    ELSE CleanupLinks([ds EXCEPT !.ok = TRUE], LinkOrder, failLink, delVrf)

\* sync, lines 247-290
SyncResult(listOk, tags, failNet, fail, kOk, linksOk, failLink) ==
    LET reset == [DriverState EXCEPT !.nets = <<>>, !.ports = <<>>,
                                     !.fdb = {}, !.neigh = <<>>,
                                     !.errors = IF listOk THEN 0 ELSE 1]
        ports == get_evpn_ports(listOk)
        built == SyncNetworks(reset, GroupOrder(ports, {}), ports, tags,
                              failNet, fail, kOk)
    IN cleanup_orphaned_resources(built, linksOk, failLink,
                                  delete_vrf_on_disconnect)

\* ----------------------------------------------------------------------
\* _cleanup_network_infrastructure, lines 1254-1324
\* ----------------------------------------------------------------------

\* the call of _cleanup_network_infrastructure that raises
CleanupNetFailPoints ==
    { "none", "delete_irb", "delete_vxlan", "frr_del_vrf",
      "delete_l3_vxlan", "delete_l3_bridge", "delete_vrf" }

\* lines 1269-1277
DriverCleanIrb(ds, ni, fail) ==
    LET irb_device == IrbName(ni.vlan_id) IN
    IF ni.l3vni = NoInt THEN ds
    ELSE IF fail = "delete_irb" THEN Fail(ds)
    ELSE [ds EXCEPT !.devs = @ \ {irb_device},
                    !.neigh = DropKey(@, irb_device)]

\* lines 1279-1283
DriverCleanL2(ds, ni, fail) ==
    IF ~ds.ok \/ ni.l2vni = NoInt THEN ds
    ELSE IF fail = "delete_vxlan" THEN Fail(ds)
    ELSE [ds EXCEPT !.devs = @ \ {VxlanName(ni.l2vni[1])}]

\* lines 1294-1313, reached with an empty network list
DriverDeleteVrf(ds, ni, fail, delVrf) ==
    LET l3vni == ni.l3vni[1]
        name == VrfName(l3vni)
    IN IF fail = "frr_del_vrf" THEN Fail(ds)
       ELSE LET s1 == [ds EXCEPT !.frr = @ \ {name}] IN
       IF l3vni > 0 /\ fail = "delete_l3_vxlan" THEN Fail(s1)
       ELSE LET s2 == IF l3vni > 0
                      THEN [s1 EXCEPT !.devs = @ \ {L3VxlanName(l3vni)}]
                      ELSE s1 IN
       IF l3vni > 0 /\ fail = "delete_l3_bridge" THEN Fail(s2)
       ELSE LET s3 == IF l3vni > 0
                      THEN [s2 EXCEPT !.devs = @ \ {BridgeName(l3vni)}]
                      ELSE s2 IN
       IF delVrf /\ fail = "delete_vrf" THEN Fail(s3)
       ELSE [s3 EXCEPT !.devs = IF delVrf THEN @ \ {name} ELSE @,
                       !.vrfs = DropKey(@, name)]

\* lines 1285-1313
DriverCleanVrf(ds, ni, fail, delVrf) ==
    IF ~ds.ok \/ ni.l3vni = NoInt THEN ds
    ELSE LET name == VrfName(ni.l3vni[1]) IN
         IF name \notin DOMAIN ds.vrfs THEN ds
         ELSE IF ~InSeq(ds.vrfs[name].networks, ni.id) THEN Fail(ds)
         ELSE LET s1 == [ds EXCEPT !.vrfs[name].networks =
                                       RemoveFirst(@, ni.id)]
              IN IF s1.vrfs[name].networks = <<>>
                 THEN DriverDeleteVrf(s1, ni, fail, delVrf)
                 ELSE s1

\* lines 1315-1321
DriverCleanFdb(ds, ni) ==
    IF ~ds.ok THEN ds
    ELSE [ds EXCEPT !.fdb = { entry \in @ : entry[2] # ni.vlan_id }]

cleanup_network_infrastructure(ds, ni, fail, delVrf) ==
    DriverCleanFdb(
        DriverCleanVrf(
            DriverCleanL2(DriverCleanIrb(ds, ni, fail), ni, fail),
            ni, fail, delVrf),
        ni)

\* ----------------------------------------------------------------------
\* Handlers: each runs to completion and writes its result back
\* ----------------------------------------------------------------------

Commit(ds) ==
    /\ evpn_networks' = ds.nets
    /\ evpn_vrfs' = ds.vrfs
    /\ evpn_ports' = ds.ports
    /\ bridge_fdb_entries' = ds.fdb
    /\ static_neighbors' = ds.neigh
    /\ devs' = ds.devs
    /\ frrVrfs' = ds.frr
    /\ UNCHANGED <<ovn_db, delete_vrf_on_disconnect, netVars, mgrVars>>

\* an exception was raised by a call below the handler's try block
BodyRaised(ds) == ds.errors > 0

\* a handler whose body is not in a try block: what is raised below it
\* leaves the handler
Rethrow(raisedInBody) == raisedInBody

\* the except Exception clause that ends every handler (lines 915-916,
\* 947-948, 1017-1018, 1045-1046, 1182-1183, 1201-1202): it logs and does
\* not raise again, so the handler returns normally
Catch(raisedInBody) == FALSE

\* how a handler ends: ok when nothing was raised below it, raised when an
\* exception leaves it
Outcome(op, net, ds) ==
    [op |-> op, net |-> net, ok |-> (ds.errors = 0), delOk |-> TRUE,
     raised |-> Catch(BodyRaised(ds))]

ListsBounded(ds) ==
    \A name \in DOMAIN ds.vrfs : Len(ds.vrfs[name].networks) <= MaxAttach

sync(listOk, tags, failNet, fail, kOk, linksOk, failLink) ==
    LET r == SyncResult(listOk, tags, failNet, fail, kOk, linksOk, failLink)
    IN /\ ListsBounded(r)
       /\ Commit(r)
       /\ last' = Outcome("sync", None, r)

\* expose_subnet, lines 838-916
ExposeSubnetResult(row, tagged, fail) ==
    LET ds == DriverState IN
    IF row.external_ids.vni = NoInt THEN Fail(ds)
    ELSE IF ~tagged THEN ds
    ELSE LET ni == EventNetworkInfo(row)
             s1 == ensure_network_infrastructure(ds, ni, fail)
         IN IF s1.ok
            THEN [s1 EXCEPT !.nets = (ni.id :> ni) @@ @]
            ELSE s1

expose_subnet(row, tagged, fail) ==
    LET r == ExposeSubnetResult(row, tagged, fail)
    IN /\ ListsBounded(r)
       /\ Commit(r)
       /\ last' = Outcome("expose_subnet", None, r)

\* withdraw_subnet, lines 918-948
WithdrawSubnetResult(row, fail) ==
    LET ds == DriverState
        network_id == row.datapath
    IN IF network_id \in DOMAIN ds.nets
       THEN [cleanup_network_infrastructure(ds, ds.nets[network_id], fail,
                                            delete_vrf_on_disconnect)
                EXCEPT !.nets = DropKey(@, network_id)]
       ELSE ds

withdraw_subnet(row, fail) ==
    LET r == WithdrawSubnetResult(row, fail)
    IN /\ Commit(r)
       /\ last' = Outcome("withdraw_subnet", None, r)

\* expose_ip, lines 950-1018
ExposeIpResult(row, cr_lrp, kOk) ==
    LET ds == DriverState
        network_id == row.datapath
    IN IF cr_lrp \/ network_id \notin DOMAIN ds.nets \/ ~row.mac.known
       THEN ds
       ELSE [SeedPort(ds, row, ds.nets[network_id], kOk) EXCEPT
                !.ports = (row.logical_port :>
                              [mac |-> row.mac.mac, ips |-> row.mac.ips,
                               network_id |-> network_id,
                               vlan_id |-> NoInt]) @@ @]

expose_ip(row, cr_lrp, kOk) ==
    /\ Commit(ExposeIpResult(row, cr_lrp, kOk))
    /\ last' = Outcome("expose_ip", None, DriverState)

\* a withdrawal that forgets the port's network as well
DropPortAndNetwork(row) ==
    [DriverState EXCEPT !.ports = DropKey(@, row.logical_port),
                        !.nets = DropKey(@, row.datapath)]

\* withdraw_ip (lines 1020-1046) and withdraw_port_association
\* (lines 1185-1202): drop the port record
DropPort(row) ==
    [DriverState EXCEPT !.ports = DropKey(@, row.logical_port)]

withdraw_ip(row) ==
    /\ Commit(DropPort(row))
    /\ last' = Outcome("withdraw_ip", row.logical_port, DriverState)

withdraw_port_association(row) ==
    /\ Commit(DropPort(row))
    /\ last' = Outcome("withdraw_port_association", row.logical_port,
                        DriverState)

\* expose_remote_ip (lines 1048-1059) and withdraw_remote_ip
\* (lines 1061-1072) only log
expose_remote_ip(row) ==
    /\ Commit(DriverState)
    /\ last' = Outcome("expose_remote_ip", None, DriverState)

withdraw_remote_ip(row) ==
    /\ Commit(DriverState)
    /\ last' = Outcome("withdraw_remote_ip", None, DriverState)

\* expose_port_association, lines 1074-1183
ExposePortAssociationResult(row, tagged, fail, kOk) ==
    LET ds == DriverState IN
    IF row.external_ids.vni = NoInt THEN Fail(ds)
    ELSE IF ~tagged THEN ds
    ELSE LET ni == EventNetworkInfo(row)
             s1 == ensure_network_infrastructure(ds, ni, fail)
         IN IF ~s1.ok THEN s1
            ELSE LET s2 == [s1 EXCEPT !.nets = (ni.id :> ni) @@ @] IN
                 IF ~row.mac.known THEN s2
                 ELSE [SeedPort(s2, row, ni, kOk) EXCEPT
                          !.ports = (row.logical_port :>
                                        [mac |-> row.mac.mac,
                                         ips |-> row.mac.ips,
                                         network_id |-> ni.id,
                                         vlan_id |-> Some(ni.vlan_id)]) @@ @]

expose_port_association(row, tagged, fail, kOk) ==
    LET r == ExposePortAssociationResult(row, tagged, fail, kOk)
    IN /\ ListsBounded(r)
       /\ Commit(r)
       /\ last' = Outcome("expose_port_association", None, r)

\* frr_sync, lines 1460-1506: add-vrf for every VRF whose first network is
\* tracked; `done` are the VRFs reached before a call raised
FrrSyncTargets(ds) ==
    { name \in DOMAIN ds.vrfs :
        /\ ds.vrfs[name].networks # <<>>
        /\ ds.vrfs[name].networks[1] \in DOMAIN ds.nets }

FrrSyncResult(frrOk, done) ==
    LET ds == DriverState IN
    IF frrOk THEN [ds EXCEPT !.frr = @ \cup FrrSyncTargets(ds)]
    ELSE Fail([ds EXCEPT !.frr = @ \cup (done \cap FrrSyncTargets(ds))])

frr_sync(frrOk, done) ==
    LET r == FrrSyncResult(frrOk, done)
    IN /\ Commit(r)
       /\ last' = Outcome("frr_sync", None, r)

\* ----------------------------------------------------------------------
\* The network-level handlers, one at a time, with failing host calls
\* ----------------------------------------------------------------------

NoLink == <<>>

Links == { LinkOrder[i] : i \in 1..Len(LinkOrder) }

\* the Port_Binding table: p1 is annotated, p2 shares p1's datapath
\* and p3 sits on the other one
Databases ==
    { <<Row("p1", e1), Row("p2", e2), Row("p3", e3)>> :
        e1 \in {e \in ExtIds : e.vni = Some(200)}, e2 \in {NoExt},
        e3 \in ExtIds \ {e \in ExtIds : e.type = "l2"} }

Rows == { ovn_db[i] : i \in 1..Len(ovn_db) }

InitDrv ==
    /\ vrfs = <<>>
    /\ devs \in {{}, StrayDevices}
    /\ frrVrfs = { d \in devs : d[1] = "vrf" }
    /\ netinfo = [n \in Nets |-> [id |-> n, vlan_id |-> VlanOf(n), vni |-> 200,
                                   type |-> "l3", l2vni |-> NoInt]]
    /\ live = {}
    /\ clean = TRUE
    /\ last = NoCall
    /\ delete_vrf_on_disconnect \in BOOLEAN
    /\ evpn_networks = <<>>
    /\ evpn_vrfs = <<>>
    /\ evpn_ports = <<>>
    /\ bridge_fdb_entries = {}
    /\ static_neighbors = <<>>
    /\ ovn_db \in Databases
    /\ faults = 0
    /\ lock = None
    /\ pc = [t \in Threads |-> Idle]
    /\ InitManagers

\* what one run of sync meets: the outcome of the listing, the datapaths
\* with a VLAN tag, the network whose build raises and where, the outcome
\* of the kernel writes and of the orphan scan
SyncFaultCount(i) ==
    BoolFault(i.listOk) + BoolFault(i.kOk) + BoolFault(i.linksOk)
        + BoolFault(i.fail = "none") + BoolFault(i.failLink = NoLink)
        + BoolFault(i.tags = Datapaths)

SyncInputs ==
    { i \in [listOk : BOOLEAN, kOk : BOOLEAN, linksOk : BOOLEAN,
              tags : SUBSET Datapaths, failNet : Datapaths \cup {None},
              fail : InfraFailPoints, failLink : Links \cup {NoLink}] :
        /\ (i.failNet = None) <=> (i.fail = "none")
        /\ SyncFaultCount(i) <= MaxFaults }

DrvSync ==
    \E i \in SyncInputs :
        /\ Inject(SyncFaultCount(i), MaxFaults)
        /\ faults' > faults
              => SyncResult(i.listOk, i.tags, i.failNet, i.fail, i.kOk,
                            i.linksOk, i.failLink)
                   # SyncResult(TRUE, Datapaths, None, "none", TRUE, TRUE,
                                NoLink)
        /\ sync(i.listOk, i.tags, i.failNet, i.fail, i.kOk, i.linksOk,
                i.failLink)

DrvExposeSubnet ==
    \E row \in Rows, tagged \in BOOLEAN, fail \in InfraFailPoints :
        /\ Inject(BoolFault(tagged) + BoolFault(fail = "none"), MaxFaults)
        /\ faults' > faults
              => ExposeSubnetResult(row, tagged, fail)
                   # ExposeSubnetResult(row, TRUE, "none")
        /\ expose_subnet(row, tagged, fail)

DrvWithdrawSubnet ==
    \E row \in Rows, fail \in CleanupNetFailPoints :
        /\ Inject(BoolFault(fail = "none"), MaxFaults)
        /\ faults' > faults
              => WithdrawSubnetResult(row, fail)
                   # WithdrawSubnetResult(row, "none")
        /\ withdraw_subnet(row, fail)

DrvExposePortAssociation ==
    \E row \in Rows, tagged \in BOOLEAN, fail \in InfraFailPoints,
       kOk \in BOOLEAN :
        /\ Inject(BoolFault(tagged) + BoolFault(fail = "none")
                    + BoolFault(kOk), MaxFaults)
        /\ faults' > faults
              => ExposePortAssociationResult(row, tagged, fail, kOk)
                   # ExposePortAssociationResult(row, TRUE, "none", TRUE)
        /\ expose_port_association(row, tagged, fail, kOk)

DrvFrrSync ==
    \E frrOk \in BOOLEAN, done \in SUBSET DOMAIN evpn_vrfs :
        /\ frrOk => done = {}
        /\ Inject(BoolFault(frrOk), MaxFaults)
        /\ done # {} => done \subseteq FrrSyncTargets(DriverState)
        /\ frr_sync(frrOk, done)

NextDrv ==
    \/ DrvSync
    \/ DrvExposeSubnet
    \/ DrvWithdrawSubnet
    \/ DrvExposePortAssociation
    \/ DrvFrrSync

SpecDrv == InitDrv /\ [][NextDrv]_vars

\* ----------------------------------------------------------------------
\* Claims about sync
\* ----------------------------------------------------------------------

\* the datapaths with a Port_Binding carrying both the VNI and the AS key
EvpnDatapaths ==
    { ovn_db[i].datapath : i \in { j \in 1..Len(ovn_db) :
                                       HasEvpnConfig(ovn_db[j]) } }

\* C8: after a full sync that returns without raising, the network ids of
\* evpn_networks are exactly the datapaths with an EVPN-annotated
\* Port_Binding, whatever the VLAN-tag lookup and the build of each
\* network did.
C8_SyncTracksEveryEvpnDatapath ==
    (last.op = "sync" /\ ~last.raised)
        => DOMAIN evpn_networks = EvpnDatapaths

\* C9: when an error occurs during sync after the maps were reset, sync
\* puts evpn_networks back to what it was when the sync began and raises
\* the error to its caller.
C9_FailedSyncRestoresSnapshot ==
    [][ (last'.op = "sync" /\ ~last'.ok)
            => (evpn_networks' = evpn_networks /\ last'.raised) ]_vars

\* C10: with no call into the host or the database having failed, a sync
\* directly after a sync leaves evpn_networks, evpn_ports and evpn_vrfs
\* (network lists included) as the first one left them; and a
\* withdraw_subnet that removes the only tracked network of a VRF removes
\* the VRF's record.
C10_SyncIdempotent ==
    [][ /\ ( /\ last.op = "sync" /\ last.ok
             /\ last'.op = "sync" /\ last'.ok
             /\ faults' = 0 )
            => /\ evpn_networks' = evpn_networks
               /\ evpn_ports' = evpn_ports
               /\ evpn_vrfs' = evpn_vrfs
        /\ (last'.op = "withdraw_subnet" /\ faults' = 0)
            => \A d \in DOMAIN evpn_networks \ DOMAIN evpn_networks' :
                  LET v == evpn_networks[d].l3vni IN
                  ( /\ v # NoInt
                    /\ \A e \in DOMAIN evpn_networks' :
                           evpn_networks'[e].l3vni # v )
                      => VrfName(v[1]) \notin DOMAIN evpn_vrfs' ]_vars

\* C11: after a sync that met no error, no host interface with the EVPN
\* VXLAN, VRF or internal-port prefix is left whose identifier is not live
\* (a VXLAN or internal port whose VNI no tracked network uses, a VRF
\* device that evpn_vrfs does not track), and FRR holds no VRF that
\* evpn_vrfs does not track.
C11_SyncCollectsOrphans ==
    (last.op = "sync" /\ last.ok)
        => /\ \A dev \in devs :
                /\ dev[1] \in {"vxlan", "vxlan_l3", "internal_port"}
                      => is_vni_in_use(evpn_networks, dev[2])
                /\ dev[1] = "vrf" => dev \in DOMAIN evpn_vrfs
           /\ \A name \in frrVrfs : name \in DOMAIN evpn_vrfs


\* ----------------------------------------------------------------------
\* Claims about the port handlers
\* ----------------------------------------------------------------------

\* how often x is listed in the sequence
Occurrences(seq, x) == Cardinality({ i \in DOMAIN seq : seq[i] = x })

\* C34: expose_port_association reuses a network that is known: for a port
\* whose network is already in evpn_networks, a call that met no failure
\* does not list the network id once more in any VRF's network list (so
\* that one withdraw_subnet of the network still empties the list and
\* removes the VRF).
C34_PortAssociationReusesNetwork ==
    [][ ( /\ last'.op = "expose_port_association"
          /\ last'.ok
          /\ faults' = faults )
          => \A d \in DOMAIN evpn_networks, name \in DOMAIN evpn_vrfs :
                name \in DOMAIN evpn_vrfs'
                   => Occurrences(evpn_vrfs'[name].networks, d)
                        = Occurrences(evpn_vrfs[name].networks, d)
      ]_vars

\* C35: withdraw_ip and withdraw_port_association drop the Port record
\* only: they remove at most the entry of row.logical_port from evpn_ports
\* and leave evpn_networks, evpn_vrfs, the FDB and neighbor records and
\* the kernel, OVS and FRR state unchanged; for a port that is not tracked
\* nothing changes at all.
C35_WithdrawDropsPortOnly ==
    [][ last'.op \in {"withdraw_ip", "withdraw_port_association"}
          => /\ evpn_ports' = DropKey(evpn_ports, last'.net)
             /\ last'.net \notin DOMAIN evpn_ports
                   => evpn_ports' = evpn_ports
             /\ UNCHANGED <<evpn_networks, evpn_vrfs, bridge_fdb_entries,
                            static_neighbors, devs, frrVrfs, ovn_db,
                            vlanVars, fdbVars>> ]_vars

\* withdraw_ip has run for port p1, which is no longer tracked, while its
\* network, the VRF, the neighbor records and the devices are still there
C35_Witness ==
    /\ last.op = "withdraw_ip"
    /\ last.net = "p1"
    /\ "p1" \notin DOMAIN evpn_ports
    /\ DpOf("p1") \in DOMAIN evpn_networks
    /\ evpn_vrfs # <<>>
    /\ static_neighbors # <<>>
    /\ devs # {}

\* C37: every entry of evpn_ports refers through its network_id to a
\* network that is in evpn_networks, after any sequence of driver events
\* and syncs; in particular no port of a network is tracked once
\* withdraw_subnet of that network has returned.
C37_PortsReferToTrackedNetworks ==
    \A p \in DOMAIN evpn_ports :
        evpn_ports[p].network_id \in DOMAIN evpn_networks

\* the VNIs of the datapaths that have an EVPN-annotated Port_Binding
LiveVnis ==
    { ovn_db[i].external_ids.vni[1] :
        i \in { j \in 1..Len(ovn_db) : HasEvpnConfig(ovn_db[j]) } }

\* C40: whatever the OVN listing, the VLAN-tag lookup and the
\* infrastructure build of a sync did, the sync deletes no VXLAN device
\* whose VNI belongs to a datapath that still has an EVPN-annotated
\* Port_Binding in OVN.
C40_SyncKeepsLiveVxlans ==
    [][ last'.op = "sync"
          => \A dev \in devs \ devs' :
                dev[1] \in {"vxlan", "vxlan_l3"} => dev[2] \notin LiveVnis
      ]_vars

\* ======================================================================
\* Part III : the 'evpn' lock around the entry points
\* ======================================================================

EventHandlers ==
    { "expose_subnet", "withdraw_subnet", "expose_ip", "withdraw_ip",
      "expose_remote_ip", "withdraw_remote_ip", "expose_port_association",
      "withdraw_port_association" }

EntryPoints == {"sync", "frr_sync"} \cup EventHandlers

\* the entry points a thread calls
ThreadOps(t) ==
    IF t = "sync_worker" THEN {"sync"}
    ELSE IF t = "frr_worker" THEN {"frr_sync"}
    ELSE EventHandlers

\* the decorator left off expose_ip
SynchronizedButExposeIp == EntryPoints \ {"expose_ip"}

\* the entry points decorated with @lockutils.synchronized('evpn')
Synchronized == EntryPoints

\* a thread calls an entry point and arrives at its decorator
Call(t, op) ==
    /\ pc[t].at = "idle"
    /\ pc' = [pc EXCEPT ![t] = [at |-> "wait", op |-> op]]
    /\ UNCHANGED <<netVars, hostVars, drvVars, last, faults, lock, mgrVars>>

\* the decorator lets the thread into the body once the lock is free
Acquire(t) ==
    /\ pc[t].at = "wait"
    /\ pc[t].op \in Synchronized => lock = None
    /\ lock' = IF pc[t].op \in Synchronized THEN t ELSE lock
    /\ pc' = [pc EXCEPT ![t].at = "in"]
    /\ UNCHANGED <<netVars, hostVars, drvVars, last, faults, mgrVars>>

\* the body has run, the decorator releases the lock
Return(t, op) ==
    /\ pc[t] = [at |-> "in", op |-> op]
    /\ lock' = IF op \in Synchronized THEN None ELSE lock
    /\ pc' = [pc EXCEPT ![t] = Idle]
    /\ faults' = faults

LockCall == \E t \in Threads : \E op \in ThreadOps(t) : Call(t, op)

LockAcquire == \E t \in Threads : Acquire(t)

LockSync ==
    \E t \in Threads :
        /\ Return(t, "sync")
        /\ sync(TRUE, Datapaths, None, "none", TRUE, TRUE, NoLink)

LockFrrSync ==
    \E t \in Threads : Return(t, "frr_sync") /\ frr_sync(TRUE, {})

LockExposeSubnet ==
    \E t \in Threads, row \in Rows :
        Return(t, "expose_subnet") /\ expose_subnet(row, TRUE, "none")

LockWithdrawSubnet ==
    \E t \in Threads, row \in Rows :
        Return(t, "withdraw_subnet") /\ withdraw_subnet(row, "none")

LockExposeIp ==
    \E t \in Threads, row \in Rows, cr_lrp \in BOOLEAN :
        Return(t, "expose_ip") /\ expose_ip(row, cr_lrp, TRUE)

LockWithdrawIp ==
    \E t \in Threads, row \in Rows :
        Return(t, "withdraw_ip") /\ withdraw_ip(row)

LockExposeRemoteIp ==
    \E t \in Threads, row \in Rows :
        Return(t, "expose_remote_ip") /\ expose_remote_ip(row)

LockWithdrawRemoteIp ==
    \E t \in Threads, row \in Rows :
        Return(t, "withdraw_remote_ip") /\ withdraw_remote_ip(row)

LockExposePortAssociation ==
    \E t \in Threads, row \in Rows :
        /\ Return(t, "expose_port_association")
        /\ expose_port_association(row, TRUE, "none", TRUE)

LockWithdrawPortAssociation ==
    \E t \in Threads, row \in Rows :
        /\ Return(t, "withdraw_port_association")
        /\ withdraw_port_association(row)

InitLock ==
    /\ InitDrv
    /\ ovn_db = <<Row("p1", [vni |-> Some(200), bgp_as |-> TRUE, type |-> "l3"]),
                  Row("p2", NoExt), Row("p3", NoExt)>>
    /\ ~delete_vrf_on_disconnect
    /\ devs = {}

NextLock ==
    \/ LockCall
    \/ LockAcquire
    \/ LockSync
    \/ LockFrrSync
    \/ LockExposeSubnet
    \/ LockWithdrawSubnet
    \/ LockExposeIp
    \/ LockWithdrawIp
    \/ LockExposeRemoteIp
    \/ LockWithdrawRemoteIp
    \/ LockExposePortAssociation
    \/ LockWithdrawPortAssociation

SpecLock == InitLock /\ [][NextLock]_vars

\* the threads executing the body of an entry point
InBody == { t \in Threads : pc[t].at = "in" }

\* C1: in every interleaving of the event callbacks and the two periodic
\* workers, at most one thread is executing the body of an entry point, and
\* that thread holds the 'evpn' lock.
C1_OneHandlerAtATime ==
    /\ Cardinality(InBody) <= 1
    /\ \A t \in InBody : lock = t

\* a thread is inside a body while the two others wait at the decorator
C1_Witness ==
    \E t \in Threads :
        /\ pc[t].at = "in"
        /\ \A u \in Threads \ {t} : pc[u].at = "wait"

\* ======================================================================
\* Part IV. VlanManager (evpn/vlan_manager.py): the allocation of one
\* bridge VLAN per network.
\* ======================================================================

\* one network more than the pool holds, so that the pool can run out
NetworkIds == 1 .. (MaxVlans + 1)

\* the VNIs asked for: one inside the VLAN range, one below, one above
VniInputs == {VLAN_MIN, 7, VLAN_MAX + 3}

\* the VNI of each network: networks 1 and 2 share a VNI inside the VLAN
\* range, network 3 has one below the range, network 4 one above it
VniOf(network_id) ==
    CASE network_id % 4 \in {1, 2} -> VLAN_MIN
      [] network_id % 4 = 3 -> 7
      [] OTHER -> VLAN_MAX + 3

\* allocations counted by the VlanManager in one behaviour: as many as
\* fill the pool
MaxAllocations == MaxVlans

\* the active_networks sets handed to cleanup_stale
ActiveSets == { 1 .. k : k \in 0 .. (MaxVlans + 1) } \cup {{2}}

\* the fields of the VlanManager object
VlanState ==
    [network_to_vlan |-> network_to_vlan, vlan_to_network |-> vlan_to_network,
     free_pool |-> free_pool, stats |-> stats]

\* d[k] = v
PutKey(d, k, v) == [x \in DOMAIN d \cup {k} |-> IF x = k THEN v ELSE d[x]]

\* VLAN_MAX - VLAN_MIN + 1
vlan_range == VLAN_MAX - VLAN_MIN + 1

\* the probe that starts at the VNI's own VLAN and walks up from there
CandidateFromVni(vni, offset) ==
    ((vni - VLAN_MIN + offset) % vlan_range) + VLAN_MIN

\* the candidate probed at one offset
Candidate(vni, offset) == ((vni + offset) % vlan_range) + VLAN_MIN

\* _find_free_vlan probing one offset less than the range
FindFreeVlanShortProbe(pool, vni) ==
    IF pool = {} THEN NoInt
    ELSE LET hits == { o \in 0 .. (vlan_range - 2) : Candidate(vni, o) \in pool }
         IN IF hits = {} THEN NoInt
            ELSE Some(Candidate(vni, CHOOSE o \in hits : \A x \in hits : o <= x))

\* VlanManager._find_free_vlan: the first free candidate, NoInt when it
\* raises VlanIdExhausted
find_free_vlan(pool, vni) ==
    IF pool = {} THEN NoInt
    ELSE LET hits == { o \in 0 .. (vlan_range - 1) : Candidate(vni, o) \in pool }
         IN IF hits = {} THEN NoInt
            ELSE Some(Candidate(vni, CHOOSE o \in hits : \A x \in hits : o <= x))

\* allocate, line 47: the VNI itself serves as the VLAN
DirectMapping(vm, vni) ==
    VLAN_MIN <= vni /\ vni <= VLAN_MAX /\ vni \in vm.free_pool

\* lines 59-62 without the free_pool.discard of line 61
RecordWithoutDiscard(vm, network_id, vlan) ==
    [vm EXCEPT !.network_to_vlan = PutKey(@, network_id, vlan),
               !.vlan_to_network = PutKey(@, vlan, network_id),
               !.stats.allocations = @ + 1]

\* allocate, lines 59-62: both maps take the pair, the pool loses the VLAN
RecordAllocation(vm, network_id, vlan) ==
    [network_to_vlan |-> PutKey(vm.network_to_vlan, network_id, vlan),
     vlan_to_network |-> PutKey(vm.vlan_to_network, vlan, network_id),
     free_pool |-> vm.free_pool \ {vlan},
     stats |-> [vm.stats EXCEPT !.allocations = @ + 1]]

\* allocate, lines 47-66: the network holds no VLAN yet
AllocateFresh(vm, network_id, vni) ==
    LET direct == DirectMapping(vm, vni)
        found == IF direct THEN Some(vni)
                 ELSE find_free_vlan(vm.free_pool, vni)
    IN IF found = NoInt
       THEN [vm |-> vm, vlan |-> NoInt, raised |-> TRUE]
       ELSE LET conflict == ~direct /\ ~(vni < VLAN_MIN \/ vni > VLAN_MAX)
                counted == IF conflict
                           THEN [vm EXCEPT !.stats.conflicts = @ + 1]
                           ELSE vm
            IN [vm |-> RecordAllocation(counted, network_id, found[1]),
                vlan |-> found, raised |-> FALSE]

\* allocate without its lines 44-45
AllocateIgnoringHolder(vm, network_id, vni) ==
    AllocateFresh(vm, network_id, vni)

\* VlanManager.allocate: the object afterwards, the VLAN returned and
\* whether it raised
allocate(vm, network_id, vni) ==
    IF network_id \in DOMAIN vm.network_to_vlan
    THEN [vm |-> vm, vlan |-> Some(vm.network_to_vlan[network_id]),
          raised |-> FALSE]
    ELSE AllocateFresh(vm, network_id, vni)

\* release without its line 76
ReleaseWithoutPoolAdd(vm, network_id) ==
    IF network_id \notin DOMAIN vm.network_to_vlan THEN vm
    ELSE [vm EXCEPT !.network_to_vlan = DropKey(@, network_id),
                    !.vlan_to_network =
                        DropKey(@, vm.network_to_vlan[network_id]),
                    !.stats.releases = @ + 1]

\* release without its line 75
ReleaseKeepingReverseMap(vm, network_id) ==
    IF network_id \notin DOMAIN vm.network_to_vlan THEN vm
    ELSE [vm EXCEPT !.network_to_vlan = DropKey(@, network_id),
                    !.free_pool = @ \cup {vm.network_to_vlan[network_id]},
                    !.stats.releases = @ + 1]

\* VlanManager.release
release(vm, network_id) ==
    IF network_id \notin DOMAIN vm.network_to_vlan THEN vm
    ELSE LET vlan == vm.network_to_vlan[network_id]
         IN [network_to_vlan |-> DropKey(vm.network_to_vlan, network_id),
             vlan_to_network |-> DropKey(vm.vlan_to_network, vlan),
             free_pool |-> vm.free_pool \cup {vlan},
             stats |-> [vm.stats EXCEPT !.releases = @ + 1]]

\* the loop of cleanup_stale: release every stale network
RECURSIVE ReleaseEach(_, _)
ReleaseEach(vm, stale) ==
    IF stale = {} THEN vm
    ELSE LET network_id == CHOOSE n \in stale : TRUE
         IN ReleaseEach(release(vm, network_id), stale \ {network_id})

\* cleanup_stale releasing every network, active or not
CleanupEveryNetwork(vm, active_networks) ==
    ReleaseEach(vm, DOMAIN vm.network_to_vlan)

\* VlanManager.cleanup_stale
cleanup_stale(vm, active_networks) ==
    ReleaseEach(vm, DOMAIN vm.network_to_vlan \ active_networks)

\* the object takes the fields of vm; nothing else changes
SetVlanState(vm) ==
    /\ network_to_vlan' = vm.network_to_vlan
    /\ vlan_to_network' = vm.vlan_to_network
    /\ free_pool' = vm.free_pool
    /\ stats' = vm.stats
    /\ UNCHANGED <<netVars, hostVars, drvVars, last, faults, thrVars, fdbVars,
                   auxVars>>

\* the maps and the pool as they are now
Snapshot ==
    [valid |-> TRUE, network_to_vlan |-> network_to_vlan,
     vlan_to_network |-> vlan_to_network, free_pool |-> free_pool]

\* network ids are opaque UUIDs: a network not seen before takes the next
\* id, which is at most one more than the allocations counted so far. A
\* network without a VLAN is allocated with its own VNI; a network that
\* holds one may be allocated again with any VNI.
VlanAllocate ==
    \E network_id \in NetworkIds, vni \in VniInputs :
        LET held == network_id \in DOMAIN network_to_vlan
            r == allocate(VlanState, network_id, vni)
        IN /\ network_id <= stats.allocations + 1
           /\ ~held => vni = VniOf(network_id)
           /\ r.vm.stats.allocations <= MaxAllocations
           /\ SetVlanState(r.vm)
           /\ vlan_call' = [op |-> "allocate", network_id |-> network_id,
                            vni |-> Some(vni), held |-> held, vlan |-> r.vlan,
                            raised |-> r.raised, active |-> {}]
           /\ vlan_before' = IF ~held /\ ~r.raised THEN Snapshot
                             ELSE NoSnapshot

VlanRelease ==
    \E network_id \in NetworkIds :
        LET vm == release(VlanState, network_id) IN
        /\ vm.stats.releases <= MaxReleases
        /\ SetVlanState(vm)
        /\ vlan_call' = [op |-> "release", network_id |-> network_id,
                         vni |-> NoInt,
                         held |-> network_id \in DOMAIN network_to_vlan,
                         vlan |-> NoInt, raised |-> FALSE, active |-> {}]
        /\ vlan_before' = IF vlan_call.op = "allocate"
                               /\ vlan_call.network_id = network_id
                          THEN vlan_before ELSE NoSnapshot

VlanCleanupStale ==
    \E active_networks \in ActiveSets :
        LET vm == cleanup_stale(VlanState, active_networks) IN
        /\ vm.stats.releases <= MaxReleases
        /\ SetVlanState(vm)
        /\ vlan_call' = [op |-> "cleanup_stale", network_id |-> 0,
                         vni |-> NoInt, held |-> FALSE, vlan |-> NoInt,
                         raised |-> FALSE, active |-> active_networks]
        /\ vlan_before' = NoSnapshot

NextVlan == VlanAllocate \/ VlanRelease \/ VlanCleanupStale

\* the driver's side is at rest and plays no part
InitVlan ==
    /\ InitNet
    /\ ~delete_vrf_on_disconnect
    /\ \A n \in Nets : netinfo[n].type = "l2" /\ netinfo[n].vni = 200

SpecVlan == InitVlan /\ [][NextVlan]_vars

\* ----------------------------------------------------------------------
\* Claims about the VlanManager
\* ----------------------------------------------------------------------

\* C12: in every state reached by allocate, release and cleanup_stale the
\* two maps are mutual inverses: every network's VLAN maps back to the
\* network and every VLAN's network maps back to the VLAN, so two distinct
\* allocated networks never hold the same VLAN.
C12_MapsAreMutualInverses ==
    /\ \A n \in DOMAIN network_to_vlan :
          /\ network_to_vlan[n] \in DOMAIN vlan_to_network
          /\ vlan_to_network[network_to_vlan[n]] = n
    /\ \A v \in DOMAIN vlan_to_network :
          /\ vlan_to_network[v] \in DOMAIN network_to_vlan
          /\ network_to_vlan[vlan_to_network[v]] = v
    /\ \A a, b \in DOMAIN network_to_vlan :
          a # b => network_to_vlan[a] # network_to_vlan[b]

\* several networks hold VLANs after allocations, a release and a
\* cleanup_stale that released something
C12_Witness ==
    /\ vlan_call.op = "cleanup_stale"
    /\ stats.releases = 2
    /\ stats.allocations >= 4
    /\ Cardinality(DOMAIN network_to_vlan) >= 2

\* the set of VLANs some network holds
AllocatedVlans == { network_to_vlan[n] : n \in DOMAIN network_to_vlan }

\* C13: in every reachable state the free pool is the VLAN range
\* [VLAN_MIN, VLAN_MAX] minus the VLANs currently allocated, the sizes of
\* the free pool and of network_to_vlan add up to the size of the range,
\* and every allocated VLAN lies in the range.
C13_FreePoolAccounting ==
    /\ free_pool = (VLAN_MIN .. VLAN_MAX) \ AllocatedVlans
    /\ Cardinality(free_pool) + Cardinality(DOMAIN network_to_vlan)
          = VLAN_MAX - VLAN_MIN + 1
    /\ \A n \in DOMAIN network_to_vlan :
          VLAN_MIN <= network_to_vlan[n] /\ network_to_vlan[n] <= VLAN_MAX

\* part of the pool is allocated, after VLANs were released and given
\* again
C13_Witness ==
    /\ Cardinality(DOMAIN network_to_vlan) >= 3
    /\ stats.releases >= 1
    /\ vlan_call.op = "allocate"
    /\ ~vlan_call.held /\ ~vlan_call.raised

\* C14: allocate for a network that already holds a VLAN, with the same or
\* any other vni, returns the VLAN it holds and changes nothing: the two
\* maps, the free pool and every counter stay as they were.
C14_AllocateIdempotent ==
    [][ (vlan_call'.op = "allocate"
            /\ vlan_call'.network_id \in DOMAIN network_to_vlan)
          => /\ vlan_call'.vlan = Some(network_to_vlan[vlan_call'.network_id])
             /\ ~vlan_call'.raised
             /\ UNCHANGED <<network_to_vlan, vlan_to_network, free_pool,
                            stats>> ]_vars

\* a network holding a VLAN was allocated again with a VNI that is not
\* its own, while its own VNI's VLAN was free
C14_Witness ==
    /\ vlan_call.op = "allocate"
    /\ vlan_call.held
    /\ vlan_call.vni # Some(VniOf(vlan_call.network_id))
    /\ vlan_call.vni[1] \in free_pool

\* C15: allocate for a network without an allocation, when it gives a
\* VLAN, gives the VNI itself if the VNI lies in [VLAN_MIN, VLAN_MAX] and
\* that VLAN is free; otherwise it gives ((vni + k) mod RANGE) + VLAN_MIN
\* for the smallest k in 0 .. RANGE - 1 for which that VLAN is free, RANGE
\* being VLAN_MAX - VLAN_MIN + 1.
C15_AllocateResult ==
    [][ (vlan_call'.op = "allocate" /\ ~vlan_call'.held /\ ~vlan_call'.raised
            /\ vlan_call' # vlan_call)
          => LET vni == vlan_call'.vni[1]
                 got == vlan_call'.vlan[1]
                 RANGE == VLAN_MAX - VLAN_MIN + 1
             IN IF VLAN_MIN <= vni /\ vni <= VLAN_MAX /\ vni \in free_pool
                THEN got = vni
                ELSE \E k \in 0 .. (RANGE - 1) :
                        /\ got = ((vni + k) % RANGE) + VLAN_MIN
                        /\ got \in free_pool
                        /\ \A j \in 0 .. (k - 1) :
                              ((vni + j) % RANGE) + VLAN_MIN \notin free_pool
      ]_vars

\* a network whose VNI lies above the range got a VLAN that was not the
\* first one probed
C15_Witness ==
    /\ vlan_call.op = "allocate"
    /\ ~vlan_call.held /\ ~vlan_call.raised
    /\ vlan_call.vni[1] > VLAN_MAX
    /\ vlan_call.vlan[1] # (vlan_call.vni[1] % vlan_range) + VLAN_MIN

\* C16: when two different networks ask for the same VNI inside the VLAN
\* range on an otherwise empty allocator, the first allocate returns the
\* VNI as the VLAN, the second returns the VLAN after it, and the conflicts
\* counter grows by exactly one.
C16_SecondRequestGetsNextVlan ==
    [][ ( /\ vlan_call.op = "allocate" /\ ~vlan_call.held
          /\ stats.allocations = 1 /\ stats.releases = 0
          /\ vlan_call'.op = "allocate" /\ ~vlan_call'.held
          /\ vlan_call'.network_id # vlan_call.network_id
          /\ vlan_call'.vni = vlan_call.vni
          /\ VLAN_MIN <= vlan_call.vni[1] /\ vlan_call.vni[1] < VLAN_MAX )
          => /\ vlan_call.vlan = vlan_call.vni
             /\ vlan_call'.vlan = Some(vlan_call.vni[1] + 1)
             /\ stats'.conflicts = stats.conflicts + 1 ]_vars

\* C17: allocate for a network without an allocation raises
\* VlanIdExhausted exactly when no VLAN of the range is free: with a free
\* VLAN it gives one whatever the VNI, and when it raises, the two maps,
\* the free pool and the counters are as they were.
C17_ExhaustedIffPoolEmpty ==
    [][ /\ (vlan_call'.op = "allocate" /\ ~vlan_call'.held
               /\ vlan_call' # vlan_call)
             => /\ vlan_call'.raised <=> free_pool = {}
                /\ vlan_call'.raised
                      => UNCHANGED <<network_to_vlan, vlan_to_network,
                                     free_pool, stats>>
        /\ LET without == NetworkIds \ DOMAIN network_to_vlan
           IN without # {}
                 => \A vni \in VniInputs :
                       allocate(VlanState, CHOOSE n \in without : TRUE,
                                vni).raised
                          <=> free_pool = {} ]_vars

\* an allocate has raised VlanIdExhausted
C17_Witness ==
    /\ vlan_call.op = "allocate"
    /\ vlan_call.raised
    /\ free_pool = {}
    /\ vlan_call.network_id \notin DOMAIN network_to_vlan

\* C18: when a network without an allocation is allocated and released by
\* the very next call, free_pool, network_to_vlan and vlan_to_network are
\* again exactly what they were before the allocate; the counters are not
\* restored (allocations and releases have grown).
C18_AllocateReleaseRoundTrip ==
    (vlan_call.op = "release" /\ vlan_before.valid)
        => /\ network_to_vlan = vlan_before.network_to_vlan
           /\ vlan_to_network = vlan_before.vlan_to_network
           /\ free_pool = vlan_before.free_pool

\* a network was allocated beside others, through a probe, and released
\* by the next call
C18_Witness ==
    /\ vlan_call.op = "release"
    /\ vlan_call.held
    /\ vlan_before.valid
    /\ Cardinality(DOMAIN network_to_vlan) >= 2
    /\ stats.conflicts >= 1

\* C19: cleanup_stale(active_networks) releases the networks that are not
\* in active_networks and nothing else: the networks allocated afterwards
\* are those allocated before that are in active_networks, each of them
\* keeps its VLAN, the VLAN of each released network is in the free pool,
\* and the releases counter grows by the number of released networks.
C19_CleanupStaleReleasesExactlyStale ==
    [][ vlan_call'.op = "cleanup_stale"
          => LET stale == DOMAIN network_to_vlan \ vlan_call'.active IN
             /\ DOMAIN network_to_vlan'
                   = DOMAIN network_to_vlan \cap vlan_call'.active
             /\ \A n \in DOMAIN network_to_vlan' :
                   network_to_vlan'[n] = network_to_vlan[n]
             /\ \A n \in stale : network_to_vlan[n] \in free_pool'
             /\ free_pool' = free_pool \cup { network_to_vlan[n] : n \in stale }
             /\ stats'.releases = stats.releases + Cardinality(stale)
             /\ stats'.allocations = stats.allocations
             /\ stats'.conflicts = stats.conflicts ]_vars

\* cleanup_stale({2}) has released two networks and kept network 2
C19_Witness ==
    /\ vlan_call.op = "cleanup_stale"
    /\ vlan_call.active = {2}
    /\ DOMAIN network_to_vlan = {2}
    /\ stats.releases = 2
    /\ stats.allocations = 3

\* ======================================================================
\* Part V. FdbManager (evpn/fdb_manager.py): the static FDB and neighbor
\* entries the agent has written, per device.
\* ======================================================================

FdbDevices == {"br-evpn", "br-other"}

\* (mac_address, vlan_id)
FdbKeys == { <<"m1", 100>>, <<"m2", 100>> }

\* (ip_address, mac_address)
NeighborKeys == { <<"10.0.0.1", "m1">> }

\* how linux_net.add_bridge_fdb / add_ip_nei ends: it returns, it raises
\* an error that says "File exists", it raises another error
KernelOutcomes == {"ok", "File exists", "error"}

\* the entries lists handed to batch_add_fdb: empty, one key, two keys,
\* one key twice, and a key that comes back after another one
BatchEntries ==
    { <<>>,
      << <<"m1", 100>> >>,
      << <<"m1", 100>>, <<"m2", 100>> >>,
      << <<"m2", 100>>, <<"m2", 100>> >>,
      << <<"m2", 100>>, <<"m1", 100>>, <<"m2", 100>> >> }

\* an entries list with the outcome the kernel has for each of its entries
BatchInputs ==
    UNION { { [entries |-> e, outcomes |-> o] :
                 o \in [1 .. Len(e) -> KernelOutcomes] } : e \in BatchEntries }

\* d[device] of a defaultdict(list): the empty list for a missing key
Entries(d, device) == IF device \in DOMAIN d THEN d[device] ELSE <<>>

\* reading d[device] of a defaultdict(list) creates the missing key
Touch(d, device) == PutKey(d, device, Entries(d, device))

SetOf(seq) == { seq[i] : i \in 1 .. Len(seq) }

\* the keys inserted for a device since its last cleanup_device
Inserted(f, device) == IF device \in DOMAIN f THEN f[device] ELSE {}

\* the entries lists handed to batch_add_neighbors: (key, device) pairs
BatchNeighborEntries ==
    { <<>>,
      << << <<"10.0.0.1", "m1">>, "br-evpn" >>,
         << <<"10.0.0.1", "m1">>, "br-other" >> >>,
      << << <<"10.0.0.1", "m1">>, "br-other" >>,
         << <<"10.0.0.1", "m1">>, "br-other" >> >> }

BatchNeighborInputs ==
    UNION { { [entries |-> e, outcomes |-> o] :
                 o \in [1 .. Len(e) -> KernelOutcomes] } :
            e \in BatchNeighborEntries }

\* the fields of the FdbManager object, the history of successful inserts,
\* and what the call has done so far: the kernel inserts attempted, the
\* warnings logged, whether an exception has left it
FdbObject ==
    [bridge_fdb_entries |-> fdb_bridge_fdb_entries,
     static_neighbors |-> fdb_static_neighbors,
     inserted |-> fdb_inserted, attempts |-> <<>>, warned |-> <<>>,
     raised |-> FALSE]

\* linux_net.add_bridge_fdb is called for a key and ends with outcome
KernelInsert(fs, key, device, outcome) ==
    [fs EXCEPT !.attempts = Append(@, <<key, device, outcome>>),
               !.inserted = IF outcome = "ok"
                            THEN PutKey(@, device, Inserted(@, device) \cup {key})
                            ELSE @]

\* lines 48-50: the except clause, entered when the kernel call raised
Except(fs, key, device, outcome) ==
    IF outcome = "File exists" THEN fs
    ELSE [fs EXCEPT !.warned = Append(@, <<key, device>>)]

\* lines 37-50 with the append moved before the kernel call
AddFdbRecordingFirst(fs, key, device, outcome) ==
    LET touched == [fs EXCEPT !.bridge_fdb_entries = Touch(@, device)] IN
    IF InSeq(touched.bridge_fdb_entries[device], key) THEN touched
    ELSE [KernelInsert(touched, key, device, outcome)
             EXCEPT !.bridge_fdb_entries[device] = Append(@, key)]

\* lines 37-50 without the try / except around the kernel call
AddFdbWithoutExcept(fs, key, device, outcome) ==
    LET touched == [fs EXCEPT !.bridge_fdb_entries = Touch(@, device)] IN
    IF InSeq(touched.bridge_fdb_entries[device], key) THEN touched
    ELSE LET called == KernelInsert(touched, key, device, outcome) IN
         IF outcome = "ok"
         THEN [called EXCEPT !.bridge_fdb_entries[device] = Append(@, key)]
         ELSE [called EXCEPT !.raised = TRUE]

\* ensure_fdb_entry lines 37-50, batch_add_fdb lines 86-99: one key
AddFdb(fs, key, device, outcome) ==
    LET touched == [fs EXCEPT !.bridge_fdb_entries = Touch(@, device)] IN
    IF InSeq(touched.bridge_fdb_entries[device], key) THEN touched
    ELSE LET called == KernelInsert(touched, key, device, outcome) IN
         IF outcome = "ok"
         THEN [called EXCEPT !.bridge_fdb_entries[device] = Append(@, key)]
         ELSE Except(called, key, device, outcome)

\* FdbManager.ensure_fdb_entry
ensure_fdb_entry_mgr(fs, mac_address, vlan_id, bridge_device, outcome) ==
    IF ~evpn_static_fdb THEN fs
    ELSE AddFdb(fs, <<mac_address, vlan_id>>, bridge_device, outcome)

\* the loop of batch_add_fdb from entry i on; an exception that leaves the
\* loop body ends the loop
RECURSIVE BatchLoop(_, _, _, _, _)
BatchLoop(fs, entries, bridge_name, outcomes, i) ==
    IF i > Len(entries) \/ fs.raised THEN fs
    ELSE BatchLoop(AddFdb(fs, entries[i], bridge_name, outcomes[i]),
                   entries, bridge_name, outcomes, i + 1)

\* FdbManager.batch_add_fdb
batch_add_fdb(fs, entries, bridge_name, outcomes) ==
    IF ~evpn_static_fdb THEN fs
    ELSE BatchLoop(fs, entries, bridge_name, outcomes, 1)

\* ensure_neighbor_entry lines 63-71, batch_add_neighbors lines 117-124:
\* one key
AddNeighbor(fs, key, device, outcome) ==
    LET touched == [fs EXCEPT !.static_neighbors = Touch(@, device)] IN
    IF InSeq(touched.static_neighbors[device], key) THEN touched
    ELSE LET called == [touched EXCEPT
                           !.attempts = Append(@, <<key, device, outcome>>)] IN
         IF outcome = "ok"
         THEN [called EXCEPT !.static_neighbors[device] = Append(@, key)]
         ELSE Except(called, key, device, outcome)

\* FdbManager.ensure_neighbor_entry
ensure_neighbor_entry(fs, key, irb_device, outcome) ==
    IF ~evpn_static_neighbors THEN fs
    ELSE AddNeighbor(fs, key, irb_device, outcome)

\* the loop of batch_add_neighbors from entry i on
RECURSIVE BatchNeighborLoop(_, _, _, _)
BatchNeighborLoop(fs, entries, outcomes, i) ==
    IF i > Len(entries) \/ fs.raised THEN fs
    ELSE BatchNeighborLoop(AddNeighbor(fs, entries[i][1], entries[i][2],
                                       outcomes[i]),
                           entries, outcomes, i + 1)

\* FdbManager.batch_add_neighbors
batch_add_neighbors(fs, entries, outcomes) ==
    IF ~evpn_static_neighbors THEN fs
    ELSE BatchNeighborLoop(fs, entries, outcomes, 1)

\* FdbManager.cleanup_device; the history of inserts of the device starts
\* afresh
cleanup_device(fs, device_name) ==
    [fs EXCEPT !.bridge_fdb_entries = DropKey(@, device_name),
               !.static_neighbors = DropKey(@, device_name),
               !.inserted = DropKey(@, device_name)]

\* the object takes the fields of fs; nothing else changes. entries are
\* the (key, device) pairs the call was asked to write
SetFdbObject(op, device, entries, fs) ==
    /\ fdb_bridge_fdb_entries' = fs.bridge_fdb_entries
    /\ fdb_static_neighbors' = fs.static_neighbors
    /\ fdb_inserted' = fs.inserted
    /\ fdb_call' = [op |-> op, device |-> device, entries |-> entries,
                    attempts |-> fs.attempts, warned |-> fs.warned,
                    raised |-> fs.raised]
    /\ UNCHANGED <<netVars, hostVars, drvVars, last, faults, thrVars,
                   vlanVars, evpn_static_fdb, evpn_static_neighbors,
                   auxVars>>

FdbEnsure ==
    \E key \in FdbKeys, device \in FdbDevices, outcome \in KernelOutcomes :
        SetFdbObject("ensure_fdb_entry", device, << <<key, device>> >>,
                     ensure_fdb_entry_mgr(FdbObject, key[1], key[2], device,
                                          outcome))

FdbBatch ==
    \E i \in BatchInputs, device \in FdbDevices :
        SetFdbObject("batch_add_fdb", device,
                     [n \in 1 .. Len(i.entries) |-> <<i.entries[n], device>>],
                     batch_add_fdb(FdbObject, i.entries, device, i.outcomes))

FdbEnsureNeighbor ==
    \E key \in NeighborKeys, device \in FdbDevices,
       outcome \in KernelOutcomes :
        SetFdbObject("ensure_neighbor_entry", device, << <<key, device>> >>,
                     ensure_neighbor_entry(FdbObject, key, device, outcome))

FdbBatchNeighbors ==
    \E i \in BatchNeighborInputs :
        SetFdbObject("batch_add_neighbors", None, i.entries,
                     batch_add_neighbors(FdbObject, i.entries, i.outcomes))

FdbCleanupDevice ==
    \E device \in FdbDevices :
        SetFdbObject("cleanup_device", device, <<>>,
                     cleanup_device(FdbObject, device))

NextFdb ==
    \/ FdbEnsure \/ FdbBatch \/ FdbEnsureNeighbor \/ FdbBatchNeighbors
    \/ FdbCleanupDevice

\* the driver and the VlanManager are at rest; the two options are free
InitFdb ==
    /\ vrfs = <<>> /\ devs = {} /\ frrVrfs = {}
    /\ netinfo = <<>>
    /\ delete_vrf_on_disconnect = FALSE
    /\ live = {} /\ clean = TRUE /\ last = NoCall
    /\ evpn_networks = <<>> /\ evpn_vrfs = <<>> /\ evpn_ports = <<>>
    /\ bridge_fdb_entries = {} /\ static_neighbors = <<>>
    /\ ovn_db = <<>>
    /\ faults = 0
    /\ lock = None
    /\ pc = [t \in Threads |-> Idle]
    /\ InitVlanManager
    /\ InitFdbManager
    /\ InitAux
    /\ evpn_static_fdb \in BOOLEAN
    /\ evpn_static_neighbors \in BOOLEAN

SpecFdb == InitFdb /\ [][NextFdb]_vars

\* ----------------------------------------------------------------------
\* Claims about the FdbManager
\* ----------------------------------------------------------------------

\* C20: after any sequence of ensure_fdb_entry, batch_add_fdb and
\* cleanup_device, a (mac, vlan) key is recorded for a bridge exactly when
\* a kernel FDB insert of it for that bridge has succeeded since the last
\* cleanup_device of the bridge; a call attempts no kernel insert for a key
\* that was recorded when it started; and cleanup_device(d) attempts no
\* kernel call, leaves d without records and leaves the records of every
\* other device as they were.
C20_FdbRecordsMatchInserts ==
    [][ /\ \A device \in FdbDevices :
              /\ SetOf(Entries(fdb_bridge_fdb_entries, device))
                    = Inserted(fdb_inserted, device)
              /\ SetOf(Entries(fdb_bridge_fdb_entries', device))
                    = Inserted(fdb_inserted', device)
        /\ fdb_call'.op \in {"ensure_fdb_entry", "batch_add_fdb"}
              => \A i \in 1 .. Len(fdb_call'.attempts) :
                    ~InSeq(Entries(fdb_bridge_fdb_entries, fdb_call'.device),
                           fdb_call'.attempts[i][1])
        /\ fdb_call'.op = "cleanup_device"
              => /\ fdb_call'.attempts = <<>>
                 /\ Entries(fdb_bridge_fdb_entries', fdb_call'.device) = <<>>
                 /\ Entries(fdb_static_neighbors', fdb_call'.device) = <<>>
                 /\ \A other \in FdbDevices \ {fdb_call'.device} :
                       /\ Entries(fdb_bridge_fdb_entries', other)
                             = Entries(fdb_bridge_fdb_entries, other)
                       /\ Entries(fdb_static_neighbors', other)
                             = Entries(fdb_static_neighbors, other) ]_vars

\* a device with records was cleaned up while the other device keeps two
\* FDB keys and a neighbor
C20_Witness ==
    /\ fdb_call.op = "cleanup_device"
    /\ Entries(fdb_bridge_fdb_entries, fdb_call.device) = <<>>
    /\ \E other \in FdbDevices \ {fdb_call.device} :
          /\ Len(Entries(fdb_bridge_fdb_entries, other)) = 2
          /\ Len(Entries(fdb_static_neighbors, other)) = 1

\* the attempts of a call that were made for one (key, device) pair
AttemptsFor(attempts, pair) ==
    SelectSeq(attempts, LAMBDA a : <<a[1], a[2]>> = pair)

\* C21: the four write operations of the FdbManager never raise, whatever
\* the kernel answers; ensure_fdb_entry and ensure_neighbor_entry attempt
\* at most one kernel insert; an insert that fails with "File exists" is
\* not logged, any other failure is logged once and not tried again for
\* that entry; and in the batch operations every entry whose key is not
\* recorded when its turn comes is attempted, whatever happened to the
\* entries before it.
C21_FdbWritesBestEffort ==
    [][ fdb_call'.op \in {"ensure_fdb_entry", "ensure_neighbor_entry",
                          "batch_add_fdb", "batch_add_neighbors"}
          => LET c == fdb_call'
                 fdbOp == c.op \in {"ensure_fdb_entry", "batch_add_fdb"}
                 enabled == IF fdbOp THEN evpn_static_fdb
                            ELSE evpn_static_neighbors
                 before == IF fdbOp THEN fdb_bridge_fdb_entries
                           ELSE fdb_static_neighbors
             IN /\ ~c.raised
                /\ c.op \in {"ensure_fdb_entry", "ensure_neighbor_entry"}
                      => Len(c.attempts) <= 1
                /\ c.warned
                      = [n \in 1 .. Len(SelectSeq(c.attempts,
                                           LAMBDA a : a[3] = "error")) |->
                           LET a == SelectSeq(c.attempts,
                                              LAMBDA x : x[3] = "error")[n]
                           IN <<a[1], a[2]>>]
                /\ ~enabled => c.attempts = <<>>
                /\ enabled =>
                     \A pair \in SetOf(c.entries) :
                        LET asked == Count(c.entries, pair)
                            tried == AttemptsFor(c.attempts, pair)
                        IN IF InSeq(Entries(before, pair[2]), pair[1])
                           THEN tried = <<>>
                           ELSE /\ Len(tried) >= 1 /\ Len(tried) <= asked
                                /\ \A n \in 1 .. (Len(tried) - 1) :
                                      tried[n][3] # "ok"
                                /\ Len(tried) < asked
                                      => tried[Len(tried)][3] = "ok" ]_vars

\* a batch went on after a failure: its first insert failed with an
\* error and a later entry was inserted
C21_Witness ==
    /\ fdb_call.op = "batch_add_fdb"
    /\ Len(fdb_call.attempts) = 3
    /\ fdb_call.attempts[1][3] = "error"
    /\ fdb_call.attempts[2][3] = "File exists"
    /\ fdb_call.attempts[3][3] = "ok"
    /\ fdb_call.warned = << <<fdb_call.attempts[1][1], fdb_call.device>> >>

\* ======================================================================
\* Part VI. OvnEvpnHelper: the VLAN-tag cache and the bounded retry
\* ======================================================================

\* the driver, the NetManager and the threads are at rest
DriverAtRest ==
    /\ vrfs = <<>> /\ devs = {} /\ frrVrfs = {}
    /\ netinfo = <<>>
    /\ delete_vrf_on_disconnect = FALSE
    /\ live = {} /\ clean = TRUE /\ last = NoCall
    /\ evpn_networks = <<>> /\ evpn_vrfs = <<>> /\ evpn_ports = <<>>
    /\ bridge_fdb_entries = {} /\ static_neighbors = <<>>
    /\ ovn_db = <<>>
    /\ faults = 0
    /\ lock = None
    /\ pc = [t \in Threads |-> Idle]

\* get_ovn_vlan_tag line 95
max_attempts == 10

HelperNetworks == {"net-a", "net-b"}

\* what one strategy yields when it is asked: a tag, no tag, an exception
Tag(v) == [kind |-> "tag", tag |-> v]
NoTag == [kind |-> "none", tag |-> 0]
Raises == [kind |-> "raise", tag |-> 0]

\* the ways an attempt yields no tag, and the ways it yields one
EmptyAttempts ==
    { [a |-> x, b |-> y] : x \in {NoTag, Raises}, y \in {NoTag, Raises} }

TagAttempts ==
    { [a |-> Tag(7), b |-> Tag(8)], [a |-> NoTag, b |-> Tag(8)],
      [a |-> Raises, b |-> Tag(7)] }

\* what OVN and OVS would answer at each attempt, asked or not, one
\* attempt past the last the loop can make: empty before attempt k, a
\* tag from then on
Behaviours ==
    { [i \in 1 .. (max_attempts + 1) |-> IF i < k THEN e ELSE t] :
        k \in 1 .. (max_attempts + 2), e \in EmptyAttempts, t \in TagAttempts }

\* _query_ovn_vlan_tag with Strategy B asked whatever Strategy A yielded
QueryBothStrategies(answer, attempt) ==
    [vlan |-> IF answer.a.kind = "tag" THEN Some(answer.a.tag)
              ELSE IF answer.b.kind = "tag" THEN Some(answer.b.tag)
              ELSE NoInt,
     queries |-> << <<attempt, "A">>, <<attempt, "B">> >>]

\* OvnEvpnHelper._query_ovn_vlan_tag: Strategy A, and Strategy B when A
\* gave no tag or raised; an exception of either is swallowed
query_ovn_vlan_tag(answer, attempt) ==
    IF answer.a.kind = "tag"
    THEN [vlan |-> Some(answer.a.tag), queries |-> << <<attempt, "A">> >>]
    ELSE [vlan |-> IF answer.b.kind = "tag" THEN Some(answer.b.tag)
                   ELSE NoInt,
          queries |-> << <<attempt, "A">>, <<attempt, "B">> >>]

\* the loop of lines 96-109 running one attempt more
RECURSIVE RetryOnceMore(_, _, _, _, _)
RetryOnceMore(cache, network_id, behaviour, attempt, queries) ==
    IF attempt > max_attempts + 1
    THEN [cache |-> cache, vlan |-> NoInt, raised |-> TRUE,
          queries |-> queries]
    ELSE LET q == query_ovn_vlan_tag(behaviour[attempt], attempt) IN
         IF q.vlan # NoInt
         THEN [cache |-> PutKey(cache, network_id, q.vlan[1]),
               vlan |-> q.vlan, raised |-> FALSE,
               queries |-> queries \o q.queries]
         ELSE RetryOnceMore(cache, network_id, behaviour, attempt + 1,
                            queries \o q.queries)

\* get_ovn_vlan_tag lines 95-113: the retry loop from an attempt on
\* (attempts are counted from 1), and the PortNotFound after it
RECURSIVE RetryLoop(_, _, _, _, _)
RetryLoop(cache, network_id, behaviour, attempt, queries) ==
    IF attempt > max_attempts
    THEN [cache |-> cache, vlan |-> NoInt, raised |-> TRUE,
          queries |-> queries]
    ELSE LET q == query_ovn_vlan_tag(behaviour[attempt], attempt) IN
         IF q.vlan # NoInt
         THEN [cache |-> PutKey(cache, network_id, q.vlan[1]),
               vlan |-> q.vlan, raised |-> FALSE,
               queries |-> queries \o q.queries]
         ELSE RetryLoop(cache, network_id, behaviour, attempt + 1,
                        queries \o q.queries)

\* get_ovn_vlan_tag without the cache read of lines 87-90
GetWithoutCacheRead(cache, network_id, behaviour) ==
    RetryLoop(cache, network_id, behaviour, 1, <<>>)

\* OvnEvpnHelper.get_ovn_vlan_tag
get_ovn_vlan_tag(cache, network_id, behaviour) ==
    IF network_id \in DOMAIN cache
    THEN [cache |-> cache, vlan |-> Some(cache[network_id]),
          raised |-> FALSE, queries |-> <<>>]
    ELSE RetryLoop(cache, network_id, behaviour, 1, <<>>)

\* OvnEvpnHelper.clear_vlan_cache; None stands for the default argument
clear_vlan_cache(cache, network_id) ==
    IF network_id # None THEN DropKey(cache, network_id) ELSE <<>>

HelperGetTag ==
    \E network_id \in HelperNetworks, behaviour \in Behaviours :
        LET r == get_ovn_vlan_tag(ovn_vlan_cache, network_id, behaviour) IN
        /\ ovn_vlan_cache' = r.cache
        /\ tag_call' = [op |-> "get_ovn_vlan_tag", network_id |-> network_id,
                        hit |-> network_id \in DOMAIN ovn_vlan_cache,
                        behaviour |-> behaviour, queries |-> r.queries,
                        vlan |-> r.vlan, raised |-> r.raised]
        /\ UNCHANGED <<netVars, hostVars, drvVars, last, faults, thrVars,
                       vlanVars, fdbVars, latchVars, frrVars, extVars>>

HelperClearCache ==
    \E network_id \in HelperNetworks \cup {None} :
        /\ ovn_vlan_cache' = clear_vlan_cache(ovn_vlan_cache, network_id)
        /\ tag_call' = [NoTagCall EXCEPT !.op = "clear_vlan_cache",
                                         !.network_id = network_id]
        /\ UNCHANGED <<netVars, hostVars, drvVars, last, faults, thrVars,
                       vlanVars, fdbVars, latchVars, frrVars, extVars>>

NextHelper == HelperGetTag \/ HelperClearCache

InitHelperSpec ==
    /\ DriverAtRest
    /\ InitVlanManager
    /\ InitFdbManager
    /\ evpn_static_fdb = TRUE
    /\ evpn_static_neighbors = TRUE
    /\ InitAux

SpecHelper == InitHelperSpec /\ [][NextHelper]_vars

\* ----------------------------------------------------------------------
\* Claims about the OvnEvpnHelper

\* C22: a network whose tag is in the cache keeps that tag until
\* clear_vlan_cache removes it: a get_ovn_vlan_tag for it returns the
\* cached tag and asks neither OVN nor OVS, and no call but a
\* clear_vlan_cache for that network (or for all) changes or removes
\* the entry. An entry enters the cache only from a call that resolved
\* a tag, and it is the tag that call returns.
C22_CachedTagIsStable ==
    [][ /\ \A n \in DOMAIN ovn_vlan_cache :
             /\ (tag_call'.op = "get_ovn_vlan_tag" /\ tag_call'.network_id = n)
                   => /\ tag_call'.vlan = Some(ovn_vlan_cache[n])
                      /\ tag_call'.queries = <<>>
                      /\ ~tag_call'.raised
             /\ ~(tag_call'.op = "clear_vlan_cache"
                    /\ tag_call'.network_id \in {n, None})
                   => /\ n \in DOMAIN ovn_vlan_cache'
                      /\ ovn_vlan_cache'[n] = ovn_vlan_cache[n]
        /\ \A n \in DOMAIN ovn_vlan_cache' \ DOMAIN ovn_vlan_cache :
             /\ tag_call'.op = "get_ovn_vlan_tag"
             /\ tag_call'.network_id = n
             /\ ~tag_call'.raised
             /\ tag_call'.queries # <<>>
             /\ tag_call'.vlan = Some(ovn_vlan_cache'[n]) ]_vars

\* a call answered from the cache, while OVN and OVS would by now have
\* given another tag
C22_Witness ==
    /\ tag_call.op = "get_ovn_vlan_tag"
    /\ tag_call.hit
    /\ tag_call.queries = <<>>
    /\ tag_call.vlan = Some(7)
    /\ tag_call.behaviour[1].a = NoTag
    /\ tag_call.behaviour[1].b = Tag(8)

\* the attempts a call made, in order
AttemptsMade(queries) == { queries[i][1] : i \in 1 .. Len(queries) }

\* does an attempt yield a tag, and which
Yields(answer) == answer.a.kind = "tag" \/ answer.b.kind = "tag"
Yielded(answer) ==
    IF answer.a.kind = "tag" THEN answer.a.tag ELSE answer.b.tag

\* C23: on a cache miss get_ovn_vlan_tag makes attempts 1, 2, ... and at
\* most 10 of them; each attempt asks Strategy A and, exactly when A gave
\* no tag, Strategy B; the call stops at the first attempt that yields a
\* tag, returns that tag and caches it; if none of the 10 attempts
\* yields a tag it raises PortNotFound and the cache is left as it was,
\* without an entry for the network.
C23_BoundedRetry ==
    [][ (tag_call'.op = "get_ovn_vlan_tag" /\ ~tag_call'.hit)
          => LET c == tag_call'
                 made == AttemptsMade(c.queries)
                 m == Cardinality(made)
                 expected(i) ==
                     IF c.behaviour[i].a.kind = "tag"
                     THEN << <<i, "A">> >>
                     ELSE << <<i, "A">>, <<i, "B">> >>
                 firstTag == { i \in 1 .. max_attempts :
                                 /\ Yields(c.behaviour[i])
                                 /\ \A j \in 1 .. (i - 1) :
                                       ~Yields(c.behaviour[j]) }
             IN /\ made = 1 .. m
                /\ m >= 1 /\ m <= max_attempts
                /\ \A i \in made :
                      SelectSeq(c.queries, LAMBDA q : q[1] = i) = expected(i)
                /\ \A i \in 1 .. (Len(c.queries) - 1) :
                      c.queries[i][1] <= c.queries[i + 1][1]
                /\ IF firstTag # {}
                   THEN /\ firstTag = {m}
                        /\ ~c.raised
                        /\ c.vlan = Some(Yielded(c.behaviour[m]))
                        /\ ovn_vlan_cache'
                             = PutKey(ovn_vlan_cache, c.network_id, c.vlan[1])
                   ELSE /\ m = max_attempts
                        /\ c.raised
                        /\ c.vlan = NoInt
                        /\ ovn_vlan_cache' = ovn_vlan_cache
                        /\ c.network_id \notin DOMAIN ovn_vlan_cache' ]_vars

\* all ten attempts were made and the tenth gave the tag
C23_Witness ==
    /\ tag_call.op = "get_ovn_vlan_tag"
    /\ ~tag_call.hit
    /\ ~tag_call.raised
    /\ AttemptsMade(tag_call.queries) = 1 .. max_attempts
    /\ tag_call.vlan = Some(8)
    /\ tag_call.network_id \in DOMAIN ovn_vlan_cache

\* all ten attempts were made, none gave a tag, PortNotFound
RetryExhausted ==
    /\ tag_call.op = "get_ovn_vlan_tag"
    /\ tag_call.raised
    /\ Len(tag_call.queries) = 2 * max_attempts

\* ----------------------------------------------------------------------
\* The cache lock, statement by statement
\* ----------------------------------------------------------------------

\* one step of a caller: its position, the lock and the cache
SetCaller(t, rec, holder, cache) ==
    /\ callers' = [callers EXCEPT ![t] = rec]
    /\ cache_lock' = holder
    /\ ovn_vlan_cache' = cache
    /\ UNCHANGED <<netVars, hostVars, drvVars, last, faults, thrVars,
                   vlanVars, fdbVars, tag_call, latchVars, frrVars, cfgVars,
                   infoVars>>

\* a thread calls get_ovn_vlan_tag(network_id) and comes to line 87
GetCall(t) ==
    /\ callers[t].at = "idle"
    /\ \E network_id \in HelperNetworks :
          SetCaller(t, [Resting EXCEPT !.at = "lock_read",
                                       !.network_id = network_id],
                    cache_lock, ovn_vlan_cache)

\* line 87: with self._ovn_vlan_cache_lock
GetLockRead(t) ==
    /\ callers[t].at = "lock_read"
    /\ cache_lock = None
    /\ SetCaller(t, [callers[t] EXCEPT !.at = "read"], t, ovn_vlan_cache)

\* the cache read with the lock kept over the retry loop on a miss
GetReadKeepingLock(t) ==
    /\ callers[t].at = "read"
    /\ IF callers[t].network_id \in DOMAIN ovn_vlan_cache
       THEN SetCaller(t, Resting, None, ovn_vlan_cache)
       ELSE SetCaller(t, [callers[t] EXCEPT !.at = "query", !.attempt = 1],
                      cache_lock, ovn_vlan_cache)

\* lines 88-90 and the end of the with block: a hit returns the cached
\* tag, a miss goes on to the retry loop; either way the lock is released
GetRead(t) ==
    /\ callers[t].at = "read"
    /\ IF callers[t].network_id \in DOMAIN ovn_vlan_cache
       THEN SetCaller(t, Resting, None, ovn_vlan_cache)
       ELSE SetCaller(t, [callers[t] EXCEPT !.at = "query", !.attempt = 1],
                      None, ovn_vlan_cache)

\* lines 96-98, 106 and 111-113: one query of OVN and OVS; with a tag the
\* caller goes to store it, without one it sleeps, or raises PortNotFound
\* after the last attempt
GetQuery(t) ==
    /\ callers[t].at = "query"
    /\ \E answer \in EmptyAttempts \cup TagAttempts :
          LET q == query_ovn_vlan_tag(answer, callers[t].attempt) IN
          IF q.vlan # NoInt
          THEN SetCaller(t, [callers[t] EXCEPT !.at = "lock_write",
                                               !.vlan = q.vlan],
                         cache_lock, ovn_vlan_cache)
          ELSE IF callers[t].attempt < max_attempts
               THEN SetCaller(t, [callers[t] EXCEPT !.at = "sleep"],
                              cache_lock, ovn_vlan_cache)
          ELSE SetCaller(t, Resting, cache_lock, ovn_vlan_cache)

\* line 109: time.sleep(1), then the next attempt
GetSleep(t) ==
    /\ callers[t].at = "sleep"
    /\ SetCaller(t, [callers[t] EXCEPT !.at = "query", !.attempt = @ + 1],
                 cache_lock, ovn_vlan_cache)

\* line 100: with self._ovn_vlan_cache_lock
GetLockWrite(t) ==
    /\ callers[t].at = "lock_write"
    /\ cache_lock = None
    /\ SetCaller(t, [callers[t] EXCEPT !.at = "write"], t, ovn_vlan_cache)

\* lines 101-104: the tag is cached, the lock released, the tag returned
GetWrite(t) ==
    /\ callers[t].at = "write"
    /\ SetCaller(t, Resting, None,
                 PutKey(ovn_vlan_cache, callers[t].network_id,
                        callers[t].vlan[1]))

\* a thread calls clear_vlan_cache and comes to line 225
ClearCall(t) ==
    /\ callers[t].at = "idle"
    /\ \E network_id \in HelperNetworks \cup {None} :
          SetCaller(t, [Resting EXCEPT !.at = "lock_clear",
                                       !.network_id = network_id],
                    cache_lock, ovn_vlan_cache)

\* line 225: with self._ovn_vlan_cache_lock
ClearLock(t) ==
    /\ callers[t].at = "lock_clear"
    /\ cache_lock = None
    /\ SetCaller(t, [callers[t] EXCEPT !.at = "clear"], t, ovn_vlan_cache)

\* lines 226-231
ClearCache(t) ==
    /\ callers[t].at = "clear"
    /\ SetCaller(t, Resting, None,
                 clear_vlan_cache(ovn_vlan_cache, callers[t].network_id))

NextCacheLock ==
    \E t \in HelperThreads :
        \/ GetCall(t)
        \/ GetLockRead(t)
        \/ GetRead(t)
        \/ GetQuery(t)
        \/ GetSleep(t)
        \/ GetLockWrite(t)
        \/ GetWrite(t)
        \/ ClearCall(t)
        \/ ClearLock(t)
        \/ ClearCache(t)

InitCacheLockSpec ==
    /\ DriverAtRest
    /\ InitVlanManager
    /\ InitFdbManager
    /\ evpn_static_fdb = TRUE
    /\ evpn_static_neighbors = TRUE
    /\ InitAux

SpecCacheLock == InitCacheLockSpec /\ [][NextCacheLock]_vars

\* a caller in the retry loop: between two queries or inside one
Retrying(t) == callers[t].at \in {"query", "sleep"}

\* a caller at the door of a with block
AtLock(t) == callers[t].at \in {"lock_read", "lock_write", "lock_clear"}

\* C36: the cache lock guards only cache reads and writes: its holder is
\* always inside one of the three with blocks, no caller queries OVN or
\* OVS or sleeps while holding it, and while one caller is retrying for a
\* network, a caller that wants the lock for another network (a cache
\* read or a clear_vlan_cache) finds it free.
C36_LockGuardsCacheOnly ==
    /\ \A t \in HelperThreads : Retrying(t) => cache_lock # t
    /\ cache_lock # None
          => callers[cache_lock].at \in {"read", "write", "clear"}
    /\ \A t, u \in HelperThreads :
          ( /\ Retrying(t)
            /\ AtLock(u)
            /\ callers[u].network_id # callers[t].network_id )
              => cache_lock = None

\* one caller sleeps between attempts for net-a while the other holds the
\* lock for a cache hit on net-b
C36_Witness ==
    /\ callers["h1"].at = "sleep"
    /\ callers["h1"].network_id = "net-a"
    /\ callers["h1"].attempt > 1
    /\ callers["h2"].at = "read"
    /\ callers["h2"].network_id = "net-b"
    /\ "net-b" \in DOMAIN ovn_vlan_cache
    /\ cache_lock = "h2"

\* ======================================================================
\* Part VII. The readiness latch of OVNEVPNDriver: start() and the
\* readers of the sb_idl property
\* ======================================================================

\* the handle OvnSbIdl(...).start() gives
SbIdl == "SbIdl"

\* one reader's record replaced
SetReader(r, rec) ==
    /\ readers' = [readers EXCEPT ![r] = rec]
    /\ UNCHANGED <<netVars, hostVars, drvVars, last, faults, thrVars,
                   vlanVars, fdbVars, helperVars, frrVars, extVars,
                   sb_idl_handle, post_fork_event, start_pc>>

\* one step of start()
SetStart(position, handle, event) ==
    /\ start_pc' = position
    /\ sb_idl_handle' = handle
    /\ post_fork_event' = event
    /\ UNCHANGED <<netVars, hostVars, drvVars, last, faults, thrVars,
                   vlanVars, fdbVars, helperVars, frrVars, extVars,
                   readers>>

\* start() lines 110-146: the OVS connection, the validation of the
\* exposing method and the EVPN prerequisites; any of them may raise
StartPrepare ==
    /\ start_pc = "idle"
    /\ \E ok \in BOOLEAN :
          SetStart(IF ok THEN "prepared" ELSE "failed",
                   sb_idl_handle, post_fork_event)

\* start() line 149
StartClearEvent ==
    /\ start_pc = "prepared"
    /\ SetStart("cleared", sb_idl_handle, FALSE)

\* start() lines 150-156: the handle is assigned through the setter, or
\* the connection raises and nothing is assigned
StartAssign ==
    /\ start_pc = "cleared"
    /\ \E ok \in BOOLEAN :
          IF ok THEN SetStart("assigned", SbIdl, post_fork_event)
          ELSE SetStart("failed", sb_idl_handle, post_fork_event)

\* line 157 left out: start() ends without setting the flag
StartWithoutSet ==
    /\ start_pc = "assigned"
    /\ SetStart("done", sb_idl_handle, post_fork_event)

\* start() lines 157-160
StartSetEvent ==
    /\ start_pc = "assigned"
    /\ SetStart("done", sb_idl_handle, TRUE)

\* the sb_idl property, line 102: the test of the handle
ReadTest(r) ==
    /\ readers[r].pc \in {"idle", "returned"}
    /\ SetReader(r, [pc |-> IF sb_idl_handle = None THEN "wait" ELSE "return",
                     value |-> None, waited |-> FALSE])

\* line 103 returning at once, whatever the flag
ReadWithoutBlocking(r) ==
    /\ readers[r].pc = "wait"
    /\ SetReader(r, [readers[r] EXCEPT !.pc = "return", !.waited = TRUE])

\* the sb_idl property, line 103: Event.wait returns once the flag is set
ReadWait(r) ==
    /\ readers[r].pc = "wait"
    /\ post_fork_event
    /\ SetReader(r, [readers[r] EXCEPT !.pc = "return", !.waited = TRUE])

\* the sb_idl property, line 104
ReadReturn(r) ==
    /\ readers[r].pc = "return"
    /\ SetReader(r, [readers[r] EXCEPT !.pc = "returned",
                                       !.value = sb_idl_handle])

LatchTest == \E r \in Readers : ReadTest(r)
LatchWait == \E r \in Readers : ReadWait(r)
LatchReturn == \E r \in Readers : ReadReturn(r)

NextLatch ==
    \/ StartPrepare \/ StartClearEvent \/ StartAssign \/ StartSetEvent
    \/ LatchTest \/ LatchWait \/ LatchReturn

InitLatchSpec ==
    /\ DriverAtRest
    /\ InitVlanManager
    /\ InitFdbManager
    /\ evpn_static_fdb = TRUE
    /\ evpn_static_neighbors = TRUE
    /\ InitAux

SpecLatch == InitLatchSpec /\ [][NextLatch]_vars

\* a thread that Event.set() has released, and a thread that is about to
\* return, are scheduled in the end; nothing is assumed of start()
SpecLatchFair ==
    /\ SpecLatch
    /\ \A r \in Readers : WF_vars(ReadWait(r)) /\ WF_vars(ReadReturn(r))

\* ----------------------------------------------------------------------
\* Claims about the readiness latch

\* C24: no read of sb_idl returns a null handle: whatever the
\* interleaving of start() with the readers, a reader that tested the
\* handle before start() assigned it waits, it does not leave the wait
\* before the handle is assigned, and the value every read returns is
\* the handle start() assigned.
C24_LatchSafety ==
    \A r \in Readers :
        /\ readers[r].pc = "wait" /\ ~post_fork_event
              => ~ENABLED ReadWait(r)
        /\ readers[r].pc = "return" => sb_idl_handle = SbIdl
        /\ readers[r].pc = "returned" => readers[r].value = SbIdl

\* a reader that tested the handle before start() assigned it, waited,
\* and returned the handle
C24_Witness ==
    /\ readers["r1"].pc = "returned"
    /\ readers["r1"].waited
    /\ readers["r1"].value = SbIdl
    /\ readers["r2"].pc = "wait"

\* C25: once start() has run to completion every reader blocked in the
\* wait is released and returns the handle, and no reader leaves the
\* wait before the handle has been assigned.
C25_LatchLiveness ==
    /\ \A r \in Readers :
          (start_pc = "done" /\ readers[r].pc = "wait")
              ~> (readers[r].pc = "returned" /\ readers[r].value = SbIdl)
    /\ [][ \A r \in Readers :
              (readers[r].pc = "wait" /\ readers'[r].pc # "wait")
                  => sb_idl_handle = SbIdl ]_vars

\* start() has completed while every reader is still blocked
C25_Witness ==
    /\ start_pc = "done"
    /\ \A r \in Readers : readers[r].pc = "wait"

\* ======================================================================
\* Part VIII. The event handlers under the 'evpn' lock, with failing
\* host calls
\* ======================================================================

\* the handlers whose body calls OVN, netlink, OVS or FRR, and the two
\* that drop a port record
ContainedHandlers ==
    { "expose_subnet", "withdraw_subnet", "expose_ip", "withdraw_ip",
      "expose_port_association", "withdraw_port_association" }

\* the body has run with n failing calls; lockutils releases the lock
\* when the body returns and when it raises
ReturnWithFaults(t, op, n) ==
    /\ pc[t] = [at |-> "in", op |-> op]
    /\ faults + n <= MaxFaults
    /\ faults' = faults + n
    /\ lock' = IF op \in Synchronized THEN None ELSE lock
    /\ pc' = [pc EXCEPT ![t] = Idle]

ContainExposeSubnet ==
    \E t \in Threads, row \in Rows, tagged \in BOOLEAN,
       fail \in InfraFailPoints :
        /\ ReturnWithFaults(t, "expose_subnet",
                            BoolFault(tagged) + BoolFault(fail = "none"))
        /\ faults' > faults
              => ExposeSubnetResult(row, tagged, fail)
                   # ExposeSubnetResult(row, TRUE, "none")
        /\ expose_subnet(row, tagged, fail)

ContainWithdrawSubnet ==
    \E t \in Threads, row \in Rows, fail \in CleanupNetFailPoints :
        /\ ReturnWithFaults(t, "withdraw_subnet", BoolFault(fail = "none"))
        /\ faults' > faults
              => WithdrawSubnetResult(row, fail)
                   # WithdrawSubnetResult(row, "none")
        /\ withdraw_subnet(row, fail)

ContainExposeIp ==
    \E t \in Threads, row \in Rows, cr_lrp \in BOOLEAN, kOk \in BOOLEAN :
        /\ ReturnWithFaults(t, "expose_ip", BoolFault(kOk))
        /\ faults' > faults
              => ExposeIpResult(row, cr_lrp, kOk)
                   # ExposeIpResult(row, cr_lrp, TRUE)
        /\ expose_ip(row, cr_lrp, kOk)

ContainExposePortAssociation ==
    \E t \in Threads, row \in Rows, tagged \in BOOLEAN,
       fail \in InfraFailPoints, kOk \in BOOLEAN :
        /\ ReturnWithFaults(t, "expose_port_association",
                            BoolFault(tagged) + BoolFault(fail = "none")
                                + BoolFault(kOk))
        /\ faults' > faults
              => ExposePortAssociationResult(row, tagged, fail, kOk)
                   # ExposePortAssociationResult(row, TRUE, "none", TRUE)
        /\ expose_port_association(row, tagged, fail, kOk)

NextContain ==
    \/ LockCall
    \/ LockAcquire
    \/ LockSync
    \/ LockFrrSync
    \/ ContainExposeSubnet
    \/ ContainWithdrawSubnet
    \/ ContainExposeIp
    \/ LockWithdrawIp
    \/ LockExposeRemoteIp
    \/ LockWithdrawRemoteIp
    \/ ContainExposePortAssociation
    \/ LockWithdrawPortAssociation

SpecContain == InitLock /\ [][NextContain]_vars

\* ----------------------------------------------------------------------
\* Claims about the handlers

C27_FailedAddVrfIsRetried ==
    [][ \A name \in devs' \ devs :
           (/\ name[1] = "vrf"
            /\ name \notin frrVrfs'
            /\ last'.op \in {"expose_subnet", "expose_port_association"}
            /\ ~last'.ok)
               => name \in FrrSyncTargets([vrfs |-> evpn_vrfs',
                                           nets |-> evpn_networks']) ]_vars

\* C28: a frr_sync that completes has emitted add-vrf for every VRF of
\* evpn_vrfs, so that FRR holds each of them afterwards.
C28_FrrSyncCoversEveryVrf ==
    [][ (last'.op = "frr_sync" /\ last'.ok)
           => DOMAIN evpn_vrfs' \subseteq frrVrfs' ]_vars

\* ======================================================================
\* Part IX. utils/frr.py: apply_vtysh_config and its temporary file
\* ======================================================================

\* the temporary files left on the host are at most this many
MaxTmpFiles == 3

\* the configurations the driver applies
ConfigStrings == {"add-vrf", "del-vrf"}

\* the name NamedTemporaryFile picks: one no existing file has
FreshName(files) ==
    CHOOSE n \in 1 .. (MaxTmpFiles + 1) :
        /\ n \notin DOMAIN files
        /\ \A m \in 1 .. (n - 1) : m \in DOMAIN files

\* apply_vtysh_config, lines 164-204. files maps each existing temporary
\* file to its content; the four outcomes are those of the creation of the
\* file, of the write, of the vtysh run and of os.unlink
apply_vtysh_config(files, config_string, createOk, writeOk, runOk, unlinkOk) ==
    LET name == FreshName(files) IN
    IF ~createOk
    THEN [files |-> files, created |-> NoInt, written |-> FALSE,
          ran |-> FALSE, unlinked |-> FALSE, raised |-> TRUE]
    ELSE IF ~writeOk
    THEN [files |-> PutKey(files, name, ""), created |-> Some(name),
          written |-> FALSE, ran |-> FALSE, unlinked |-> FALSE,
          raised |-> TRUE]
    ELSE [files |-> IF unlinkOk THEN files
                    ELSE PutKey(files, name, config_string),
          created |-> Some(name), written |-> TRUE, ran |-> TRUE,
          unlinked |-> unlinkOk, raised |-> ~runOk]

FrrApply ==
    \E config_string \in ConfigStrings,
       createOk \in BOOLEAN, writeOk \in BOOLEAN, runOk \in BOOLEAN,
       unlinkOk \in BOOLEAN :
        LET r == apply_vtysh_config(tmp_files, config_string, createOk,
                                    writeOk, runOk, unlinkOk)
        IN /\ Cardinality(DOMAIN tmp_files) < MaxTmpFiles
           /\ createOk \/ (writeOk /\ runOk /\ unlinkOk)
           /\ writeOk \/ (runOk /\ unlinkOk)
           /\ tmp_files' = r.files
           /\ vtysh_call' = [op |-> "apply_vtysh_config",
                             config_string |-> config_string,
                             created |-> r.created, written |-> r.written,
                             ran |-> r.ran, unlinked |-> r.unlinked,
                             raised |-> r.raised]
           /\ UNCHANGED <<netVars, hostVars, drvVars, last, faults, thrVars,
                          vlanVars, fdbVars, helperVars, latchVars,
                          extVars>>

NextFrr == FrrApply

InitFrrSpec ==
    /\ DriverAtRest
    /\ InitVlanManager
    /\ InitFdbManager
    /\ evpn_static_fdb = TRUE
    /\ evpn_static_neighbors = TRUE
    /\ InitAux

SpecFrr == InitFrrSpec /\ [][NextFrr]_vars

\* ----------------------------------------------------------------------
\* Claims about apply_vtysh_config

\* C29: when apply_vtysh_config returns or raises, the temporary file it
\* created no longer exists, whether the vtysh run succeeded or failed.
C29_TempFileDeleted ==
    [][ (vtysh_call'.op = "apply_vtysh_config"
            /\ vtysh_call'.created # NoInt)
           => (DOMAIN tmp_files' \subseteq DOMAIN tmp_files) ]_vars

\* ======================================================================
\* Part X : vrf_reconfigure and the FRR configuration (utils/frr.py)
\* ======================================================================

\* CONF.bgp_AS, the default of config.py
bgp_AS == 64999

\* the AS numbers a network's external_ids can carry
BgpAsNumbers == {bgp_AS, 65001}

\* the local preferences a network can carry: none, or one value
LocalPrefs == {NoInt, Some(200)}

\* the VRFs of the two VNIs
FrrVrfNames == { VrfName(v) : v \in Vnis }

\* commands of a rendered configuration, and the objects they make
VrfStanza(name) == <<"vrf", name>>
RouterBgp(as, name) == <<"router bgp", as, name>>
RouteMap(name) == <<"route-map", "LOCAL_PREF", name>>
No(object) == <<"no", object>>

\* ADD_VRF_TEMPLATE: the vrf stanza, the BGP instance of the VRF and, with
\* a local preference, the route-map and the instance once more
RenderAddVrf(opts) ==
    <<VrfStanza(opts.vrf_name), RouterBgp(opts.bgp_as, opts.vrf_name)>>
        \o (IF opts.local_pref # NoInt
            THEN <<RouteMap(opts.vrf_name),
                   RouterBgp(opts.bgp_as, opts.vrf_name)>>
            ELSE <<>>)

\* DEL_VRF_TEMPLATE
RenderDelVrf(opts) ==
    <<No(VrfStanza(opts.vrf_name)),
      No(RouterBgp(opts.bgp_as, opts.vrf_name))>>
        \o (IF opts.local_pref # NoInt
            THEN <<No(RouteMap(opts.vrf_name))>>
            ELSE <<>>)

\* evpn_info: bgp_as and local_pref are NoInt when the caller left the key
\* out. opts.update(evpn_info) over the defaults of lines 335-346.
Opts(evpn_info) ==
    [vrf_name |-> evpn_info.vrf_name,
     bgp_as |-> IF evpn_info.bgp_as = NoInt THEN bgp_AS
                ELSE evpn_info.bgp_as[1],
     local_pref |-> evpn_info.local_pref]

\* FRR applies one command: a VRF has one BGP instance, so an instance
\* under another AS is refused; "no" removes the object it names and is
\* refused when that object does not exist
ApplyCommand(config, command) ==
    IF command[1] = "no" THEN config \ {command[2]}
    ELSE IF command[1] = "router bgp"
            /\ \E other \in BgpAsNumbers \ {command[2]} :
                  RouterBgp(other, command[3]) \in config
         THEN config
    ELSE config \cup {command}

\* vtysh -f file: the commands of the file in order
RECURSIVE ApplyConfig(_, _)
ApplyConfig(config, commands) ==
    IF commands = <<>> THEN config
    ELSE ApplyConfig(ApplyCommand(config, Head(commands)), Tail(commands))

\* vrf_reconfigure(evpn_info, action)
vrf_reconfigure(config, evpn_info, action) ==
    LET opts == Opts(evpn_info)
        rendered == IF action = "add-vrf" THEN RenderAddVrf(opts)
                    ELSE RenderDelVrf(opts)
    IN [config |-> ApplyConfig(config, rendered), rendered |-> rendered]

\* the FRR objects that belong to a VRF
ObjectsOf(config, name) ==
    { object \in config : object[Len(object)] = name }

SetVrfCall(action, evpn_info, r) ==
    /\ frr_config' = r.config
    /\ vrf_call' = [action |-> action, vrf_name |-> evpn_info.vrf_name,
                    bgp_as |-> evpn_info.bgp_as,
                    local_pref |-> evpn_info.local_pref,
                    config |-> r.rendered]
    /\ UNCHANGED <<netVars, hostVars, drvVars, last, faults, thrVars,
                   vlanVars, fdbVars, helperVars, latchVars, frrVars,
                   lockVars, infoVars>>

\* _configure_frr (net_manager.py) and lines 577-593 of the driver: the
\* network's AS and, when it has one, its local preference
ConfigureFrr ==
    \E name \in FrrVrfNames, as \in BgpAsNumbers, local_pref \in LocalPrefs :
        LET evpn_info == [vrf_name |-> name, bgp_as |-> Some(as),
                          local_pref |-> local_pref]
        IN SetVrfCall("add-vrf", evpn_info,
                      vrf_reconfigure(frr_config, evpn_info, "add-vrf"))

\* the del-vrf of the last network of a VRF (net_manager.py lines
\* 127-128, driver lines 1298-1299): evpn_info holds vrf_name and vni only.
\* It is emitted for a VRF that add-vrf configured.
DeleteFrrVrf ==
    \E name \in FrrVrfNames :
        LET evpn_info == [vrf_name |-> name, bgp_as |-> NoInt,
                          local_pref |-> NoInt]
        IN /\ VrfStanza(name) \in frr_config
           /\ SetVrfCall("del-vrf", evpn_info,
                         vrf_reconfigure(frr_config, evpn_info, "del-vrf"))

NextFrrVrf == ConfigureFrr \/ DeleteFrrVrf

InitFrrVrfSpec ==
    /\ DriverAtRest
    /\ InitVlanManager
    /\ InitFdbManager
    /\ evpn_static_fdb = TRUE
    /\ evpn_static_neighbors = TRUE
    /\ InitAux

SpecFrrVrf == InitFrrVrfSpec /\ [][NextFrrVrf]_vars

\* ----------------------------------------------------------------------
\* Claims about del-vrf
\* ----------------------------------------------------------------------

\* C33: the del-vrf emitted when a VRF's last network detaches removes
\* everything the matching add-vrf configured for that VRF: the vrf
\* stanza, the BGP instance of the VRF under the AS add-vrf used and the
\* LOCAL_PREF route-map whenever add-vrf had set a local preference; after
\* add-vrf followed by del-vrf no FRR object of that VRF remains.
C33_DelVrfUndoesAddVrf ==
    [][ (vrf_call.action = "add-vrf" /\ vrf_call'.action = "del-vrf"
            /\ vrf_call'.vrf_name = vrf_call.vrf_name)
          => ObjectsOf(frr_config', vrf_call.vrf_name) = {} ]_vars

\* ======================================================================
\* Part XI : one Port_Binding through the sync path and the event path
\* ======================================================================

\* values of the EVPN type key: absent, the two the agent knows, and two
\* it does not
TypeValues == {"absent", "l2", "l3", "L2", "symmetric"}

\* EVPN external_ids with any of these types
TypedExtIds ==
    { [vni |-> Some(v), bgp_as |-> TRUE, type |-> t] :
        v \in Vnis \cup StrayVnis, t \in TypeValues }

\* CONF.l2vni_offset: unset (the default) or set
Offsets == {NoInt, Some(10000)}

\* lines 392-396 of _build_network_info, lines 898-901 of expose_subnet
\* and lines 1131-1133 of expose_port_association: an l2vni computed from
\* the VLAN when the type gave none
WithOffset(info, l2vni_offset) ==
    IF info.l2vni = NoInt /\ l2vni_offset # NoInt
    THEN [info EXCEPT !.l2vni = Some(info.vlan_id + l2vni_offset[1])]
    ELSE info

\* sync: _build_network_info(network_id, sample_port)
SyncPathInfo(row, tagged, l2vni_offset) ==
    LET built == build_network_info(row.datapath, row, tagged)
    IN IF built = <<>> THEN <<>>
       ELSE <<WithOffset(built[1], l2vni_offset)>>

\* expose_subnet and expose_port_association: they return before they
\* build anything when the network has no VLAN tag
EventPathInfo(row, tagged, l2vni_offset) ==
    IF ~tagged THEN <<>>
    ELSE <<WithOffset(EventNetworkInfo(row), l2vni_offset)>>

\* one Port_Binding handed to both paths
BuildBoth ==
    \E p \in {"p1", "p2", "p3"}, ext \in TypedExtIds, tagged \in BOOLEAN,
       l2vni_offset \in Offsets :
        LET row == Row(p, ext) IN
        /\ info_call' = [op |-> "build", row |-> row,
                         l2vni_offset |-> l2vni_offset,
                         sync_path |-> SyncPathInfo(row, tagged,
                                                    l2vni_offset),
                         event_path |-> EventPathInfo(row, tagged,
                                                      l2vni_offset)]
        /\ UNCHANGED <<netVars, hostVars, drvVars, last, faults, thrVars,
                       vlanVars, fdbVars, helperVars, latchVars, frrVars,
                       cfgVars, lockVars>>

NextInfo == BuildBoth

InitInfoSpec ==
    /\ DriverAtRest
    /\ InitVlanManager
    /\ InitFdbManager
    /\ evpn_static_fdb = TRUE
    /\ evpn_static_neighbors = TRUE
    /\ InitAux

SpecInfo == InitInfoSpec /\ [][NextInfo]_vars

\* C39: for the same Port_Binding (external_ids, datapath and VLAN tag,
\* any value of the type key, absent and unrecognised included) the
\* network_info of the event handlers has the l2vni, l3vni and type of
\* the one _build_network_info builds in sync.
C39_EventAndSyncPathAgree ==
    info_call.op = "build"
        => /\ (info_call.sync_path = <<>>) <=> (info_call.event_path = <<>>)
           /\ info_call.sync_path # <<>>
                 => LET s == info_call.sync_path[1]
                        e == info_call.event_path[1]
                    IN /\ s.l2vni = e.l2vni
                       /\ s.l3vni = e.l3vni
                       /\ s.type = e.type

=============================================================================
